---- MODULE Spec2Model ----
(***************************************************************************)
(* go-ucl: the byte-level scanner (scanner.go) and the two recursive       *)
(* descent front ends built on it, Decoder (decoder.go) and the older      *)
(* Parser (parser.go).                                                     *)
(* The Encoder (unnamed/part_000) has a section of its own at the end.     *)
(*                                                                         *)
(* A byte is a one-character string; a byte slice is a sequence of bytes.  *)
(* The decoder's recursion is an explicit call stack of frames.            *)
(***************************************************************************)
EXTENDS Integers, Sequences, FiniteSets, TLC

VARIABLES
    api,            \* "Decoder" (decoder.go) or "Parser" (parser.go)
    ExportKeyOrder, \* the package-level switch
    doc,            \* the bytes the io.Reader holds
    shape,          \* how doc was put together (never read by the program)
    rd,             \* the io.Reader: bytes handed out so far, its chunk size, and
                    \* where and how it fails (failAt < 0: never)
    s,              \* the scanner struct
    p,              \* the Decoder/Parser struct: tags, tagsIndex, ucl
    stack,          \* call stack, innermost frame last
    ret,            \* the value returned by the frame popped last
    out,            \* what Decode()/Ucl() returned
    enc             \* the Encoder: the value to encode, the work still to do, and
                    \* the Write calls made on its io.Writer

vars == <<api, ExportKeyOrder, doc, shape, rd, s, p, stack, ret, out, enc>>

(***************************************************************************)
(* scanner.go: token kinds and scanner states (the iota block)             *)
(***************************************************************************)
WHITESPACE == 0
TAG == 1
SEMICOL == 2
COMMA == 3
COLON == 4
EQUAL == 5
QUOTE == 6
VQUOTE == 7
SLASH == 8
HCOMMENT == 9
LCOMMENT == 10
MLSTRING == 11
BRACEOPEN == 12
BRACECLOSE == 13
BRACKETOPEN == 14
BRACKETCLOSE == 15
LCOMMENT_CLOSING == 16
MAYBE_MLSTRING == 17
MAYBE_MLSTRING2 == 18
MLSTRING_PREP == 19
MLSTRING_HEADER_OK == 20

skipWhite == 1
skipSep == 2

\* len(s.buf) after make([]byte, 4096)
BufSize == 4096

\* the reserved key "--ucl-keyorder--"
KeyOrder == <<"-", "-", "u", "c", "l", "-", "k", "e", "y", "o", "r", "d", "e", "r", "-", "-">>

(***************************************************************************)
(* bytes                                                                   *)
(***************************************************************************)
\* c <= ' ' for the bytes that occur
IsCtl(c) == c \in {" ", "\n", "\t", "\r"}

Letters ==
    {"a", "b", "c", "d", "e", "f", "g", "h", "i", "j", "k", "l", "m", "n", "o",
     "p", "q", "r", "s", "t", "u", "v", "w", "x", "y", "z",
     "A", "B", "C", "D", "E", "F", "G", "H", "I", "J", "K", "L", "M", "N", "O",
     "P", "Q", "R", "S", "T", "U", "V", "W", "X", "Y", "Z"}
Digits == {"0", "1", "2", "3", "4", "5", "6", "7", "8", "9"}
IsAlnum(c) == c \in Letters \cup Digits

Last(q) == q[Len(q)]
Min(a, b) == IF a < b THEN a ELSE b

(***************************************************************************)
(* errors: the message without its arguments, and the line it reports      *)
(***************************************************************************)
NoErr == [e |-> "nil", line |-> 0]
Err(e, line) == [e |-> e, line |-> line]
EOF == Err("EOF", 0)
ErrUnexpectedEOF == Err("unexpected EOF", 0)
\* an error of the byte source that is not io.EOF
ErrRead == Err("read failed", 0)
errUnexpectedMultiline == Err("unexpected multi-line string", 0)
errUnexpectedBracket == Err("unexpected \"{\", parent not nil|map|list", 0)
errKeyOrderNotSlice == Err("map[--keyorder--] is not slice", 0)
errParentNotMap == Err("parent is not map type", 0)

(***************************************************************************)
(* the value model: interface{} values by dynamic type                     *)
(***************************************************************************)
NilV == [t |-> "nil"]
Str(v) == [t |-> "string", v |-> v]
List(v) == [t |-> "list", v |-> v]
Map(m) == [t |-> "map", v |-> m]
Keys(ks) == [t |-> "keys", v |-> ks]
TagV(tg) == [t |-> "tag", v |-> tg]
EmptyMap == <<>>

IsMap(x) == x.t = "map"
IsList(x) == x.t = "list"
IsTag(x) == x.t = "tag"
IsKeys(x) == x.t = "keys"

\* m[k] = v on a Go map
Put(m, k, v) == [x \in DOMAIN m \cup {k} |-> IF x = k THEN v ELSE m[x]]

(***************************************************************************)
(* scanner.go: helpers                                                     *)
(***************************************************************************)
\* newScanner
newScanner ==
    [buf |-> <<>>, bufMax |-> 0, bufIndex |-> 0, depth |-> <<>>, curTag |-> <<>>,
     state |-> WHITESPACE, skipSep |-> 0, line |-> 1, mlStringTag |-> <<>>,
     curLine |-> <<>>, err |-> NoErr]

scopeAdd(sc, c) == [sc EXCEPT !.depth = Append(sc.depth, c)]

\* whether scopeReduce finds the matching open on top of the stack
scopeMatches(depth, c) ==
    /\ Len(depth) > 0
    /\ \/ Last(depth) = "[" /\ c = "]"
       \/ Last(depth) = "{" /\ c = "}"
       \/ Last(depth) = "(" /\ c = ")"

\* variant: a close pops whatever open is on top of the stack
scopeReduceAny(sc, c) ==
    IF Len(sc.depth) > 0
    THEN [s |-> [sc EXCEPT !.depth = SubSeq(sc.depth, 1, Len(sc.depth) - 1)], found |-> TRUE]
    ELSE [s |-> sc, found |-> FALSE]

\* scopeReduce: [s, found]
scopeReduce(sc, c) ==
    IF scopeMatches(sc.depth, c)
    THEN [s |-> [sc EXCEPT !.depth = SubSeq(sc.depth, 1, Len(sc.depth) - 1)], found |-> TRUE]
    ELSE [s |-> sc, found |-> FALSE]

\* curDepth; the zero byte is written ""
curDepth(sc) == IF Len(sc.depth) = 0 THEN "" ELSE Last(sc.depth)

discard(sc) == [sc EXCEPT !.curTag = <<>>]

HexDigits == Digits \cup {"a", "b", "c", "d", "e", "f", "A", "B", "C", "D", "E", "F"}
OctDigits == {"0", "1", "2", "3", "4", "5", "6", "7"}

\* the bytes of the one-letter escapes of strconv.UnquoteChar; a control byte
\* with no TLA+ escape is written by its Go escape
SimpleEscape ==
    [x \in {"a", "b", "f", "n", "r", "t", "v", "\\"} |->
        CASE x = "n" -> "\n"
          [] x = "t" -> "\t"
          [] x = "r" -> "\r"
          [] x = "\\" -> "\\"
          [] OTHER -> "\\" \o x]

RECURSIVE Concat(_)
Concat(q) == IF q = <<>> THEN "" ELSE Head(q) \o Concat(Tail(q))

\* strconv.UnquoteChar on the head of q: [ok, c, n] with n the bytes consumed.
\* A numeric escape (\x41, \101, A) yields one element named by the escape.
UnquoteChar(q, quote) ==
    LET bad == [ok |-> FALSE, c |-> "", n |-> 0]
        num(k, digs) ==
            IF Len(q) >= 2 + k /\ \A i \in 3..(2 + k) : q[i] \in digs
            THEN [ok |-> TRUE, c |-> Concat(SubSeq(q, 1, 2 + k)), n |-> 2 + k]
            ELSE bad
    IN  IF q[1] = quote THEN bad
        ELSE IF q[1] # "\\" THEN [ok |-> TRUE, c |-> q[1], n |-> 1]
        ELSE IF Len(q) <= 1 THEN bad
        ELSE IF q[2] \in DOMAIN SimpleEscape THEN [ok |-> TRUE, c |-> SimpleEscape[q[2]], n |-> 2]
        ELSE IF q[2] = "x" THEN num(2, HexDigits)
        ELSE IF q[2] = "u" THEN num(4, HexDigits)
        ELSE IF q[2] = "U" THEN num(8, HexDigits)
        ELSE IF q[2] \in OctDigits
             THEN IF Len(q) >= 4 /\ q[3] \in OctDigits /\ q[4] \in OctDigits
                     /\ q[2] \in {"0", "1", "2", "3"}
                  THEN [ok |-> TRUE, c |-> Concat(SubSeq(q, 1, 4)), n |-> 4]
                  ELSE bad
        ELSE IF q[2] \in {"'", "\""}
             THEN IF q[2] = quote THEN [ok |-> TRUE, c |-> q[2], n |-> 2] ELSE bad
        ELSE bad

RECURSIVE UnquoteLoop(_, _)
UnquoteLoop(q, quote) ==
    IF q = <<>> THEN [ok |-> TRUE, str |-> <<>>]
    ELSE LET prepend(c, rest) ==
                 IF rest.ok THEN [ok |-> TRUE, str |-> <<c>> \o rest.str] ELSE rest
             loop(u) ==
                 IF ~u.ok THEN [ok |-> FALSE, str |-> <<>>]
                 ELSE prepend(u.c, UnquoteLoop(SubSeq(q, u.n + 1, Len(q)), quote))
         IN  loop(UnquoteChar(q, quote))

\* unquote: [ok, str]
unquote(q, quote) ==
    IF Len(q) = 0 THEN [ok |-> TRUE, str |-> <<>>]
    ELSE IF \A i \in 1..Len(q) : q[i] # "\\" /\ q[i] # quote THEN [ok |-> TRUE, str |-> q]
    ELSE UnquoteLoop(q, quote)

\* a *tag
Tag(val, state) == [val |-> val, state |-> state]

\* makeTag(v, state) with v != nil
makeTagV(v, state) == IF Len(v) > 0 THEN Tag(v, state) ELSE Tag(<<>>, 0)

\* makeTag(nil, 0): [s, tag, ok]; ok is false when s.err was set and nil returned
makeTag(sc) ==
    IF sc.state = QUOTE \/ sc.state = VQUOTE
    THEN LET quoted(qs) ==
                 IF ~qs.ok
                 THEN [s |-> [sc EXCEPT !.err = Err("unable to unquote", sc.line)],
                       tag |-> Tag(<<>>, 0), ok |-> FALSE]
                 ELSE [s |-> [sc EXCEPT !.curTag = <<>>], tag |-> Tag(qs.str, sc.state),
                       ok |-> TRUE]
         IN  quoted(unquote(sc.curTag, IF sc.state = QUOTE THEN "\"" ELSE "'"))
    ELSE IF Len(sc.curTag) > 0
    THEN [s |-> [sc EXCEPT !.curTag = <<>>], tag |-> Tag(sc.curTag, sc.state), ok |-> TRUE]
    ELSE [s |-> sc, tag |-> Tag(<<>>, 0), ok |-> TRUE]

(***************************************************************************)
(* scanner.go, nextTags: one iteration of the byte loop.  A handler takes  *)
(* and returns r = [s, tags, ret, err]: ret is "cont" (next byte), "tags"  *)
(* (return tags, nil), "err" (return nil, err) or "panic".                 *)
(***************************************************************************)
Cont(sc, tags) == [s |-> sc, tags |-> tags, ret |-> "cont", err |-> NoErr]
Fail(r, e) == [r EXCEPT !.ret = "err", !.err = e]
Panic(r) == [r EXCEPT !.ret = "panic", !.err = Err("panic", r.s.line)]
ReturnTags(r) == IF r.ret = "cont" THEN [r EXCEPT !.ret = "tags"] ELSE r

\* tags = append(tags, s.makeTag(nil, 0)); if s.err != nil { return nil, s.err }
Emit(r) ==
    IF r.ret # "cont" THEN r
    ELSE LET append(m) ==
                 IF m.ok THEN [r EXCEPT !.s = m.s, !.tags = Append(r.tags, m.tag)]
                 ELSE Fail([r EXCEPT !.s = m.s], m.s.err)
         IN  append(makeTag(r.s))

\* tags = append(tags, s.makeTag(v, state))
EmitV(r, v, state) ==
    IF r.ret # "cont" THEN r ELSE [r EXCEPT !.tags = Append(r.tags, makeTagV(v, state))]

\* if len(tags) > 0 { return tags, nil }
ReturnIfTags(r) == IF Len(r.tags) > 0 THEN ReturnTags(r) ELSE r

SetState(r, st) == [r EXCEPT !.s.state = st]
SetCur(r, ct) == [r EXCEPT !.s.curTag = ct]
SetSkip(r, k) == [r EXCEPT !.s.skipSep = k]


AppendCur(r, c) == [r EXCEPT !.s.curTag = Append(@, c)]

\* k & bit != 0, and k &^ bit, for the skipSep flags
Has(k, bit) == (k \div bit) % 2 = 1
Clear(k, bit) == IF Has(k, bit) THEN k - bit ELSE k

\* strings.Split(q, " ") without its empty fields
RECURSIVE SplitFields(_, _)
SplitFields(q, cur) ==
    IF q = <<>> THEN (IF cur = <<>> THEN <<>> ELSE <<cur>>)
    ELSE IF Head(q) = " "
         THEN (IF cur = <<>> THEN <<>> ELSE <<cur>>) \o SplitFields(Tail(q), <<>>)
         ELSE SplitFields(Tail(q), Append(cur, Head(q)))

RECURSIVE EmitFields(_, _)
EmitFields(r, fields) ==
    IF fields = <<>> THEN r ELSE EmitFields(EmitV(r, Head(fields), TAG), Tail(fields))

\* "scan backwards and terminate previous tag": q up to its last byte > ' '
RECURSIVE TrimRight(_)
TrimRight(q) ==
    IF q = <<>> THEN <<>>
    ELSE IF ~IsCtl(Last(q)) THEN q
    ELSE TrimRight(SubSeq(q, 1, Len(q) - 1))

EmitTrimmed(r) ==
    IF TrimRight(r.s.curTag) = <<>> THEN r ELSE EmitV(r, TrimRight(r.s.curTag), TAG)

\* variant: the ',' is a COMMA token whatever the scope
scanWhitespaceCommaLenient(r) ==
    ReturnTags(SetState(Emit(SetState(r, COMMA)), WHITESPACE))

\* case WHITESPACE, the ',' branch
scanWhitespaceComma(r) ==
    IF curDepth(r.s) = "["
    THEN ReturnTags(SetState(Emit(SetState(r, COMMA)), WHITESPACE))
    ELSE Fail(r, Err("unexpected ,", r.s.line))

\* case WHITESPACE, BRACEOPEN, BRACECLOSE
scanWhitespace(sc, tags, c) ==
    IF IsCtl(c)
    THEN LET r0 == Cont(sc, tags)
             r1 == IF sc.state # WHITESPACE THEN Emit(r0) ELSE r0
         IN  ReturnIfTags(SetState(AppendCur(r1, c), WHITESPACE))
    ELSE LET sc1 == IF Len(sc.curTag) > 0 /\ IsCtl(Last(sc.curTag)) THEN discard(sc) ELSE sc
             sc2 == IF c # "\"" /\ c # "'" THEN [sc1 EXCEPT !.curTag = Append(@, c)] ELSE sc1
             r == Cont(sc2, tags)
             open(st) == ReturnTags(SetState(Emit(SetState(Cont(scopeAdd(sc2, c), tags), st)), WHITESPACE))
             close(st) ==
                 LET red == scopeReduce(sc2, c)
                 IN  IF ~red.found THEN Fail(r, Err("misplaced " \o c, sc2.line))
                     ELSE ReturnTags(SetState(Emit(SetState(Cont(red.s, tags), st)), WHITESPACE))
             single(st) == ReturnTags(SetState(Emit(SetState(r, st)), WHITESPACE))
             tag(k) == SetSkip(SetState(r, TAG), k)
         IN  CASE c = "[" -> open(BRACKETOPEN)
               [] c = "]" -> close(BRACKETCLOSE)
               [] c \in {"(", ")"} -> tag(skipWhite + skipSep)
               [] c = "{" -> open(BRACEOPEN)
               [] c = "}" -> close(BRACECLOSE)
               [] c = "/" -> SetState(r, SLASH)
               [] c = "\"" -> SetState(r, QUOTE)
               [] c = "'" -> SetState(r, VQUOTE)
               [] c = "#" -> SetState(r, HCOMMENT)
               [] c = "<" -> tag(skipWhite + skipSep)
               [] c \in {"=", ":"} ->
                    IF Len(tags) = 0 \/ (Last(tags).state # QUOTE /\ Last(tags).state # VQUOTE)
                    THEN Fail(r, Err("unexpected " \o c, sc2.line))
                    ELSE tag(skipWhite)
               [] c = "," -> scanWhitespaceComma(r)
               [] c = ";" -> single(SEMICOL)
               [] OTHER -> tag(skipWhite + skipSep)

\* case TAG, the ',' branch
scanTagComma(sc, tags, c) ==
    IF curDepth(sc) # "[" /\ curDepth(sc) # "{"
    THEN AppendCur(Cont(sc, tags), c)
    ELSE ReturnTags(SetState(Emit(SetState(SetCur(Emit(Cont(sc, tags)), <<c>>), COMMA)), WHITESPACE))

\* variant: every space ends the current word
scanTagSpaceSplit(sc, tags, c) ==
    IF Len(sc.curTag) > 0 THEN Emit(Cont(sc, tags)) ELSE Cont(sc, tags)

\* case TAG, the c <= ' ' branch (other than '\n')
scanTagSpace(sc, tags, c) ==
    IF Len(tags) = 0 THEN Emit(Cont(sc, tags))
    ELSE IF ~Has(sc.skipSep, skipWhite) THEN AppendCur(Cont(sc, tags), c)
    ELSE Cont(sc, tags)

\* case TAG, the '}' and ']' branches
scanTagClose(sc, tags, c) ==
    LET opener == IF c = "}" THEN "{" ELSE "["
        kind == IF c = "}" THEN BRACECLOSE ELSE BRACKETCLOSE
        r == Cont(sc, tags)
    IN  IF curDepth(sc) # opener THEN Fail(r, Err("unexpected }", sc.line))
        ELSE LET r1 == EmitTrimmed(r)
                 red == scopeReduce(r1.s, c)
             IN  IF ~red.found THEN Panic(r1)
                 ELSE ReturnTags(SetState(SetCur(EmitV([r1 EXCEPT !.s = red.s], <<c>>, kind), <<>>),
                                          WHITESPACE))

\* case TAG, the '{' and '[' branches
scanTagOpen(sc, tags, c) ==
    LET r1 == EmitFields(Cont(sc, tags), SplitFields(sc.curTag, <<>>))
        r2 == [r1 EXCEPT !.s = scopeAdd([r1.s EXCEPT !.curTag = <<c>>], c)]
    IN  ReturnTags(SetState(Emit(SetState(r2, IF c = "{" THEN BRACEOPEN ELSE BRACKETOPEN)),
                            WHITESPACE))

\* case TAG
scanTag(sc, tags, c) ==
    LET r == Cont(sc, tags)
    IN  IF Len(sc.curTag) > 0 /\ Last(sc.curTag) = "<"
        THEN SetState(AppendCur(r, c), MAYBE_MLSTRING)
        ELSE CASE c \in {"{", "["} -> scanTagOpen(sc, tags, c)
               [] c \in {"}", "]"} -> scanTagClose(sc, tags, c)
               [] c \in {"'", "\""} ->
                    ReturnTags(SetState(SetCur(EmitTrimmed(r), <<>>),
                                        IF c = "'" THEN VQUOTE ELSE QUOTE))
               [] c = ";" ->
                    ReturnTags(SetState(Emit(SetState(SetCur(Emit(r), <<c>>), SEMICOL)), WHITESPACE))
               [] c = "," -> scanTagComma(sc, tags, c)
               [] c = "\n" ->
                    ReturnTags(SetCur(SetState(EmitV(Emit(r), <<";">>, SEMICOL), WHITESPACE), <<>>))
               [] IsCtl(c) /\ c # "\n" -> scanTagSpace(sc, tags, c)
               [] c \in {":", "="} ->
                    IF Has(sc.skipSep, skipSep)
                    THEN LET r1 == SetState(SetCur(Emit(r), <<c>>), IF c = ":" THEN COLON ELSE EQUAL)
                         IN  SetSkip(SetState(Emit(r1), TAG), Clear(sc.skipSep, skipSep))
                    ELSE SetSkip(AppendCur(r, c), Clear(sc.skipSep, skipWhite))
               [] c = "\\" -> Fail(r, Err("unexpected \\", sc.line))
               [] OTHER ->
                    IF Len(tags) > 0
                    THEN SetSkip(AppendCur(r, c), Clear(sc.skipSep, skipWhite))
                    ELSE AppendCur(r, c)


\* case MAYBE_MLSTRING
scanMaybeMlString(sc, tags, c) ==
    LET r == AppendCur(Cont(sc, tags), c)
    IN  IF IsAlnum(c) THEN [r EXCEPT !.s.state = MLSTRING_PREP, !.s.curLine = <<c>>]
        ELSE SetState(r, TAG)

\* the least index >= from (0-based) whose byte satisfies Stop, or Len(q)
IndexFrom(q, from, Stop(_)) ==
    LET hits == {i \in from..(Len(q) - 1) : Stop(q[i + 1])}
    IN  IF hits = {} THEN Len(q) ELSE CHOOSE i \in hits : \A j \in hits : i <= j

IsLt(c) == c = "<"

\* case MLSTRING_PREP, "Send the tag key": the key in front of <<, once per
\* alphanumeric byte of the header
scanMlStringKey(r) ==
    LET q == r.s.curTag
        ti == IndexFrom(q, 0, IsCtl)
        te == IndexFrom(q, ti, IsLt)
        junk == {i \in ti..(te - 1) : ~IsCtl(q[i + 1]) /\ q[i + 1] # "="}
    IN  IF junk # {} THEN Fail(r, Err("Line", r.s.line))
        ELSE SetCur(EmitV(r, SubSeq(q, 1, ti), TAG), SubSeq(q, te + 1, Len(q)))

\* case MLSTRING_PREP
scanMlStringPrep(sc, tags, c) ==
    LET r == Cont(sc, tags)
    IN  IF IsAlnum(c)
        THEN IF Len(sc.curTag) = 0 THEN Panic(r)
             ELSE LET r1 == IF sc.curTag[1] # "<" THEN scanMlStringKey(r) ELSE r
                      r2 == IF r1.ret = "cont"
                            THEN [r1 EXCEPT !.s.curTag = Append(@, c), !.s.curLine = Append(@, c)]
                            ELSE r1
                  IN  ReturnIfTags(r2)
        ELSE [r EXCEPT !.s.mlStringTag = sc.curLine, !.s.curLine = <<>>, !.s.curTag = <<>>,
                       !.s.state = IF c = "\n" THEN MLSTRING ELSE MLSTRING_HEADER_OK]

\* case MLSTRING_HEADER_OK
scanMlStringHeaderOk(sc, tags, c) ==
    IF c = "\n" THEN SetState(Cont(sc, tags), MLSTRING) ELSE Cont(sc, tags)

\* case MLSTRING
scanMlString(sc, tags, c) ==
    LET r == Cont(sc, tags)
        r1 == IF c \in {";", "\n"}
              THEN IF sc.curLine = sc.mlStringTag
                   THEN IF Len(sc.curTag) = 0 THEN Panic(r)
                        ELSE [SetState(Emit(SetCur(r, SubSeq(sc.curTag, 1, Len(sc.curTag) - 1))),
                                       WHITESPACE) EXCEPT !.s.curLine = <<>>]
                   ELSE [r EXCEPT !.s.curTag = (@ \o sc.curLine) \o <<c>>, !.s.curLine = <<>>]
              ELSE [r EXCEPT !.s.curLine = Append(@, c)]
    IN  ReturnIfTags(r1)

\* case QUOTE, VQUOTE
scanQuote(sc, tags, c) ==
    LET r == Cont(sc, tags)
    IN  IF c = "\\"
        THEN IF sc.bufIndex >= sc.bufMax THEN AppendCur(r, c)
             ELSE LET c2 == sc.buf[sc.bufIndex + 1]
                  IN  [r EXCEPT !.s.curTag = (@ \o <<c>>) \o <<c2>>,
                                !.s.line = IF c2 = "\n" THEN @ + 1 ELSE @,
                                !.s.bufIndex = @ + 1]
        ELSE IF (sc.state = QUOTE /\ c = "\"") \/ (sc.state = VQUOTE /\ c = "'")
        THEN SetSkip(SetState(Emit(r), TAG), skipWhite + skipSep)
        ELSE AppendCur(r, c)

\* case SLASH, the switch after the escape test
scanSlashByte(sc, tags, c) ==
    LET r == Cont(sc, tags)
    IN  CASE c = "/" -> ReturnTags(SetState(Emit(AppendCur(r, c)), WHITESPACE))
          [] c = "\n" -> ReturnTags(SetState(Emit(r), WHITESPACE))
          [] c = " " -> ReturnTags(SetState(AppendCur(Emit(r), c), WHITESPACE))
          [] c = ";" -> ReturnTags(SetState(AppendCur(Emit(SetState(r, TAG)), c), TAG))
          [] OTHER -> AppendCur(r, c)

\* case SLASH
scanSlash(sc, tags, c) ==
    IF Len(sc.curTag) = 1 /\ c = "*"
    THEN SetState(AppendCur(Cont(sc, tags), c), LCOMMENT)
    ELSE IF c = "\\" /\ sc.bufIndex + 1 < sc.bufMax
    THEN [Cont(sc, tags) EXCEPT !.s.curTag = (@ \o <<c>>) \o <<sc.buf[sc.bufIndex + 2]>>,
                                !.s.bufIndex = @ + 2]
    ELSE scanSlashByte(sc, tags, c)

\* case HCOMMENT
scanHComment(sc, tags, c) ==
    IF c = "\n" THEN ReturnTags(SetState(Emit(Cont(sc, tags)), WHITESPACE))
    ELSE AppendCur(Cont(sc, tags), c)

\* case LCOMMENT
scanLComment(sc, tags, c) ==
    LET r == AppendCur(Cont(sc, tags), c)
    IN  IF c = "*" THEN SetState(r, LCOMMENT_CLOSING) ELSE r

\* case LCOMMENT_CLOSING
scanLCommentClosing(sc, tags, c) ==
    LET r == AppendCur(Cont(sc, tags), c)
    IN  IF c = "/" THEN ReturnTags(SetState(Emit(SetState(r, LCOMMENT)), WHITESPACE))
        ELSE SetState(r, LCOMMENT)

\* the body of the for loop from "c := s.buf[s.bufIndex]" on
scanByte(sc0, tags) ==
    LET c == sc0.buf[sc0.bufIndex + 1]
        sc == [sc0 EXCEPT !.bufIndex = @ + 1, !.line = IF c = "\n" THEN @ + 1 ELSE @]
    IN  CASE sc.state \in {WHITESPACE, BRACEOPEN, BRACECLOSE} -> scanWhitespace(sc, tags, c)
          [] sc.state = TAG -> scanTag(sc, tags, c)
          [] sc.state = MAYBE_MLSTRING -> scanMaybeMlString(sc, tags, c)
          [] sc.state = MLSTRING_PREP -> scanMlStringPrep(sc, tags, c)
          [] sc.state = MLSTRING_HEADER_OK -> scanMlStringHeaderOk(sc, tags, c)
          [] sc.state = MLSTRING -> scanMlString(sc, tags, c)
          [] sc.state \in {QUOTE, VQUOTE} -> scanQuote(sc, tags, c)
          [] sc.state = SLASH -> scanSlash(sc, tags, c)
          [] sc.state = HCOMMENT -> scanHComment(sc, tags, c)
          [] sc.state = LCOMMENT -> scanLComment(sc, tags, c)
          [] sc.state = LCOMMENT_CLOSING -> scanLCommentClosing(sc, tags, c)
          [] OTHER -> Cont(sc, tags)


(***************************************************************************)
(* decoder.go / parser.go: frames of the call stack and what a step of the *)
(* innermost frame does: call a function, return, or panic                 *)
(***************************************************************************)
NoTag == Tag(<<>>, -1)
NoRet == [val |-> NilV, err |-> NoErr]

FParse(t, parent, root) ==
    [fn |-> "parse", pc |-> "start", t |-> t, parent |-> parent, root |-> root,
     keyOrder |-> [init |-> FALSE, ks |-> <<>>]]
FParseValue(t, parent) ==
    [fn |-> "parseValue", pc |-> "start", t |-> t, parent |-> parent]
FParseList(t, parent) ==
    [fn |-> "parseList", pc |-> "start", t |-> t, parent |-> parent]
FNextTag == [fn |-> "nextTag", pc |-> "start"]
FNextTags == [fn |-> "nextTags", tags |-> <<>>]

DoCall(top, callee, ucl) == [k |-> "call", top |-> top, callee |-> callee, ucl |-> ucl]
DoRet(val, err, ucl) == [k |-> "ret", val |-> val, err |-> err, ucl |-> ucl]
DoPanic(ucl) == [k |-> "panic", ucl |-> ucl]

IsKeyKind(st) == st \in {TAG, QUOTE, VQUOTE, SLASH}
IsSkipped(st) == st \in {WHITESPACE, LCOMMENT, HCOMMENT}

\* "t = nil; goto restart": the next thing the function does is call nextTag
Restart(f, ucl) == DoCall([f EXCEPT !.pc = "gotTag", !.t = NoTag], FNextTag, ucl)

\* variant: a repeated key overwrites
InsertKeyDrop(m, k, res, keyOrder) ==
    IF k \in DOMAIN m
    THEN Put(m, k, res)
    ELSE Put(IF keyOrder.init THEN Put(m, KeyOrder, Keys(Append(keyOrder.ks, k))) ELSE m, k, res)

\* variant: a new key goes to the front of the key order
InsertKeyReorder(m, k, res, keyOrder) ==
    IF k \in DOMAIN m
    THEN IF IsList(m[k]) THEN Put(m, k, List(Append(m[k].v, res)))
         ELSE Put(m, k, List(<<m[k], res>>))
    ELSE Put(IF keyOrder.init THEN Put(m, KeyOrder, Keys(<<k>> \o keyOrder.ks)) ELSE m, k, res)

\* variant: a list under a repeated key is wrapped like any other value
InsertKeyWrap(m, k, res, keyOrder) ==
    IF k \in DOMAIN m
    THEN Put(m, k, List(<<m[k], res>>))
    ELSE Put(IF keyOrder.init THEN Put(m, KeyOrder, Keys(Append(keyOrder.ks, k))) ELSE m, k, res)

\* parse, lines 268-288 (parser.go 302-321): insert res under k, promoting a
\* repeated key to a list and recording a new key in the key order
InsertKey(m, k, res, keyOrder) ==
    IF k \in DOMAIN m
    THEN IF IsList(m[k]) THEN Put(m, k, List(Append(m[k].v, res)))
         ELSE Put(m, k, List(<<m[k], res>>))
    ELSE Put(IF keyOrder.init THEN Put(m, KeyOrder, Keys(Append(keyOrder.ks, k))) ELSE m, k, res)

\* parse, case Tag/Quote/VQuote/Slash up to the call of parseValue
parseKey(f, ucl, eko, a) ==
    IF ~IsMap(f.parent)
    THEN IF a = "Parser" THEN DoPanic(ucl) ELSE DoRet(NilV, errParentNotMap, ucl)
    ELSE LET m == f.parent.v
             call(ko) == DoCall([f EXCEPT !.pc = "gotValue", !.keyOrder = ko],
                                FParseValue(NoTag, NilV), ucl)
         IN  IF KeyOrder \notin DOMAIN m THEN call([init |-> eko, ks |-> <<>>])
             ELSE IF IsKeys(m[KeyOrder])
             THEN call([init |-> Len(m[KeyOrder].v) > 0, ks |-> m[KeyOrder].v])
             ELSE DoRet(NilV, errKeyOrderNotSlice, ucl)

\* variant: a heredoc token is taken as a key
parseSwitchHeredocKey(f, ucl, eko, a) ==
    LET st == f.t.state
    IN  CASE IsKeyKind(st) \/ st = MLSTRING -> parseKey(f, ucl, eko, a)
          [] st = SEMICOL -> Restart(f, ucl)
          [] st = MLSTRING -> DoRet(NilV, errUnexpectedMultiline, ucl)
          [] st = BRACEOPEN ->
                IF f.parent = NilV
                THEN DoCall([f EXCEPT !.pc = "tail"], FParse(NoTag, Map(EmptyMap), FALSE), ucl)
                ELSE IF IsMap(f.parent) \/ IsList(f.parent)
                THEN DoCall([f EXCEPT !.pc = "tail"], FParse(NoTag, f.parent, f.root), ucl)
                ELSE DoRet(NilV, errUnexpectedBracket, ucl)
          [] st \in {BRACECLOSE, BRACKETCLOSE} -> DoRet(f.parent, NoErr, ucl)
          [] st = BRACKETOPEN ->
                DoCall([f EXCEPT !.pc = "tail"], FParseList(NoTag, <<>>), ucl)
          [] OTHER -> DoRet(NilV, NoErr, ucl)

\* parse, the switch on t.state
parseSwitch(f, ucl, eko, a) ==
    LET st == f.t.state
    IN  CASE IsKeyKind(st) -> parseKey(f, ucl, eko, a)
          [] st = SEMICOL -> Restart(f, ucl)
          [] st = MLSTRING -> DoRet(NilV, errUnexpectedMultiline, ucl)
          [] st = BRACEOPEN ->
                IF f.parent = NilV
                THEN DoCall([f EXCEPT !.pc = "tail"], FParse(NoTag, Map(EmptyMap), FALSE), ucl)
                ELSE IF IsMap(f.parent) \/ IsList(f.parent)
                THEN DoCall([f EXCEPT !.pc = "tail"], FParse(NoTag, f.parent, f.root), ucl)
                ELSE DoRet(NilV, errUnexpectedBracket, ucl)
          [] st \in {BRACECLOSE, BRACKETCLOSE} -> DoRet(f.parent, NoErr, ucl)
          [] st = BRACKETOPEN ->
                DoCall([f EXCEPT !.pc = "tail"], FParseList(NoTag, <<>>), ucl)
          [] OTHER -> DoRet(NilV, NoErr, ucl)

\* variant: the error of a key without a value is returned to the caller
parseGotValueReport(f, r, ucl, eko, a) ==
    LET isTag == IsTag(r.val)
        \* res and t after lines 250-266
        res == IF r.err # NoErr
               THEN IF r.val.v.state = SEMICOL THEN NilV ELSE r.val
               ELSE IF isTag THEN Str(r.val.v.val) ELSE r.val
        t2 == IF r.err = NoErr /\ isTag THEN r.val.v ELSE f.t
        k == IF a = "Parser" THEN f.t.val ELSE t2.val
        m == InsertKey(f.parent.v, k, res, f.keyOrder)
        f2 == [f EXCEPT !.parent = Map(m), !.t = t2]
        ucl2 == IF f.root THEN m ELSE ucl
    IN  IF r.err # NoErr THEN DoRet(NilV, r.err, ucl)
        ELSE IF r.err = NoErr /\ isTag /\ r.val.v.state # BRACECLOSE
        THEN parseSwitch([f EXCEPT !.t = r.val.v], ucl, eko, a)
        ELSE IF t2.state = BRACECLOSE THEN DoRet(f2.parent, NoErr, ucl2)
        ELSE Restart(f2, ucl2)

\* parse, from the return of parseValue to the end of the case
parseGotValue(f, r, ucl, eko, a) ==
    LET isTag == IsTag(r.val)
        \* res and t after lines 250-266
        res == IF r.err # NoErr
               THEN IF r.val.v.state = SEMICOL THEN NilV ELSE r.val
               ELSE IF isTag THEN Str(r.val.v.val) ELSE r.val
        t2 == IF r.err = NoErr /\ isTag THEN r.val.v ELSE f.t
        k == IF a = "Parser" THEN f.t.val ELSE t2.val
        m == InsertKey(f.parent.v, k, res, f.keyOrder)
        f2 == [f EXCEPT !.parent = Map(m), !.t = t2]
        ucl2 == IF f.root THEN m ELSE ucl
    IN  IF r.err # NoErr /\ ~isTag THEN DoRet(NilV, r.err, ucl)
        ELSE IF r.err = NoErr /\ isTag /\ r.val.v.state # BRACECLOSE
        THEN parseSwitch([f EXCEPT !.t = r.val.v], ucl, eko, a)
        ELSE IF t2.state = BRACECLOSE THEN DoRet(f2.parent, NoErr, ucl2)
        ELSE Restart(f2, ucl2)

\* one step of parse
parseStep(f, r, ucl, eko, a) ==
    CASE f.pc = "start" ->
            IF f.t = NoTag THEN Restart(f, ucl) ELSE parseSwitch(f, ucl, eko, a)
      [] f.pc = "gotTag" ->
            IF r.err # NoErr THEN DoRet(NilV, r.err, ucl)
            ELSE parseSwitch([f EXCEPT !.t = r.val.v], ucl, eko, a)
      [] f.pc = "gotValue" -> parseGotValue(f, r, ucl, eko, a)
      [] f.pc = "tail" -> DoRet(r.val, r.err, ucl)

\* variant: no key order in the one-key map
NestedMapNoOrder(k, res) == Map(Put(EmptyMap, k, res))

\* parseValue, lines 126-137: the one-key map of an implicit nesting level
NestedMap(k, res) == Map(Put(Put(EmptyMap, KeyOrder, Keys(<<k>>)), k, res))

\* parseValue, the switch on t.state
parseValueSwitch(f, ucl, line) ==
    LET st == f.t.state
        noValue(c) == IF f.parent = NilV
                      THEN DoRet(TagV(f.t), Err("unexpected " \o c, line), ucl)
                      ELSE DoRet(f.parent, NoErr, ucl)
    IN  CASE IsKeyKind(st) -> DoCall([f EXCEPT !.pc = "gotNt"], FNextTag, ucl)
          [] st = SEMICOL -> noValue(";")
          [] st = COMMA -> noValue(",")
          [] st = MLSTRING -> DoRet(Str(f.t.val), NoErr, ucl)
          [] st = BRACEOPEN -> DoCall([f EXCEPT !.pc = "tail"], FParse(f.t, f.parent, FALSE), ucl)
          [] st \in {BRACECLOSE, BRACKETCLOSE} -> DoRet(f.parent, NoErr, ucl)
          [] st = BRACKETOPEN -> DoCall([f EXCEPT !.pc = "tail"], FParseList(NoTag, <<>>), ucl)
          [] st \in {EQUAL, COLON} -> Restart(f, ucl)
          [] OTHER -> DoRet(NilV, NoErr, ucl)

\* parseValue, lines 113-124: what the token after t makes of t
parseValueGotNt(f, r, ucl) ==
    IF r.err # NoErr THEN DoRet(NilV, r.err, ucl)
    ELSE LET nt == r.val.v
         IN  IF nt.state = SEMICOL \/ nt.state = COMMA THEN DoRet(Str(f.t.val), NoErr, ucl)
             ELSE IF nt.state = BRACECLOSE \/ nt.state = BRACKETCLOSE
             THEN DoRet(TagV(Tag(f.t.val, nt.state)), NoErr, ucl)
             ELSE DoCall([f EXCEPT !.pc = "gotRes"], FParseValue(nt, f.parent), ucl)

\* one step of parseValue
parseValueStep(f, r, ucl, line) ==
    CASE f.pc = "start" ->
            IF f.t = NoTag THEN Restart(f, ucl) ELSE parseValueSwitch(f, ucl, line)
      [] f.pc = "gotTag" ->
            IF r.err # NoErr THEN DoRet(NilV, r.err, ucl)
            ELSE parseValueSwitch([f EXCEPT !.t = r.val.v], ucl, line)
      [] f.pc = "gotNt" -> parseValueGotNt(f, r, ucl)
      [] f.pc = "gotRes" ->
            IF r.err # NoErr THEN DoRet(NilV, r.err, ucl)
            ELSE DoRet(NestedMap(f.t.val, r.val), NoErr, ucl)
      [] f.pc = "tail" -> DoRet(r.val, r.err, ucl)

\* parseList, the switch on t.state
parseListSwitch(f, ucl, line) ==
    LET st == f.t.state
    IN  CASE st = BRACKETCLOSE -> DoRet(List(f.parent), NoErr, ucl)
          [] st \in {SEMICOL, COLON, EQUAL} -> DoRet(NilV, Err("invalid tag", line), ucl)
          [] st = COMMA -> Restart(f, ucl)
          [] OTHER -> DoCall([f EXCEPT !.pc = "gotRes"], FParseValue(f.t, NilV), ucl)

\* variant: the element in front of the ']' is not appended
parseListStepDropLast(f, r, ucl, line) ==
    CASE f.pc = "start" ->
            IF f.t = NoTag THEN Restart(f, ucl) ELSE parseListSwitch(f, ucl, line)
      [] f.pc = "gotTag" ->
            IF r.err # NoErr THEN DoRet(NilV, r.err, ucl)
            ELSE parseListSwitch([f EXCEPT !.t = r.val.v], ucl, line)
      [] f.pc = "gotRes" ->
            IF r.err # NoErr THEN DoRet(NilV, r.err, ucl)
            ELSE IF IsTag(r.val)
            THEN IF r.val.v.state = BRACKETCLOSE
                 THEN DoRet(List(f.parent), NoErr, ucl)
                 ELSE DoRet(NilV, Err("unexpected tag", line), ucl)
            ELSE Restart([f EXCEPT !.parent = Append(@, r.val)], ucl)

\* one step of parseList
parseListStep(f, r, ucl, line) ==
    CASE f.pc = "start" ->
            IF f.t = NoTag THEN Restart(f, ucl) ELSE parseListSwitch(f, ucl, line)
      [] f.pc = "gotTag" ->
            IF r.err # NoErr THEN DoRet(NilV, r.err, ucl)
            ELSE parseListSwitch([f EXCEPT !.t = r.val.v], ucl, line)
      [] f.pc = "gotRes" ->
            IF r.err # NoErr THEN DoRet(NilV, r.err, ucl)
            ELSE IF IsTag(r.val)
            THEN IF r.val.v.state = BRACKETCLOSE
                 THEN DoRet(List(Append(f.parent, Str(r.val.v.val))), NoErr, ucl)
                 ELSE DoRet(NilV, Err("unexpected tag", line), ucl)
            ELSE Restart([f EXCEPT !.parent = Append(@, r.val)], ucl)


(***************************************************************************)
(* the actions                                                             *)
(***************************************************************************)
Top == stack[Len(stack)]
Pop(st) == SubSeq(st, 1, Len(st) - 1)
Running(fn) == out.state = "called" /\ stack # <<>> /\ Top.fn = fn

\* what the innermost frame's step does to the call stack, the returned value
\* and the root map
Apply(step) ==
    /\ stack' = CASE step.k = "call" -> Append(Pop(stack), step.top) \o <<step.callee>>
                  [] step.k = "ret" -> Pop(stack)
                  [] step.k = "panic" -> <<>>
    /\ ret' = IF step.k = "ret" THEN [val |-> step.val, err |-> step.err] ELSE NoRet
    /\ p' = [p EXCEPT !.ucl = step.ucl,
                      \* parser.go: defer func() { p.err = err }()
                      !.err = IF api = "Parser" /\ Top.fn = "parse" /\ step.k = "ret"
                              THEN step.err ELSE @]
    /\ out' = IF step.k = "panic" THEN [out EXCEPT !.state = "panic"] ELSE out

\* variant: the open scopes are not looked at
emptyReadErrAlwaysEOF(depth) == EOF

\* nextTags, lines 196-202: the error for a read of no bytes
emptyReadErr(depth) == IF Len(depth) > 0 THEN ErrUnexpectedEOF ELSE EOF

\* io.Reader.Read on a reader holding doc: [n, err].  A reader with
\* failAt = k >= 0 has an error instead of an end: it delivers the first k
\* bytes of doc and reports ErrRead, with the last of these bytes
\* (failWithData) or by a read of no bytes after them.
readerRead ==
    LET limit == IF rd.failAt < 0 THEN Len(doc) ELSE Min(rd.failAt, Len(doc))
        n == Min(Min(rd.chunk, BufSize), limit - rd.pos)
    IN  IF rd.failAt < 0 THEN [n |-> n, err |-> IF n = 0 THEN EOF ELSE NoErr]
        ELSE IF n = 0 \/ (rd.failWithData /\ rd.pos + n = limit)
        THEN [n |-> n, err |-> ErrRead]
        ELSE [n |-> n, err |-> NoErr]

\* nextTags, lines 194-209: the buffer is used up, read the next chunk
nextTagsRead ==
    /\ Running("nextTags")
    /\ s.bufIndex >= s.bufMax
    /\ LET got == readerRead
       IN  /\ rd' = [rd EXCEPT !.pos = @ + got.n, !.failed = @ \/ got.err = ErrRead]
           /\ IF got.n = 0
              THEN /\ s' = [s EXCEPT !.bufMax = 0]
                   /\ stack' = Pop(stack)
                   /\ ret' = [val |-> <<>>, err |-> emptyReadErr(s.depth)]
              ELSE IF got.err # NoErr
              THEN /\ s' = [s EXCEPT !.bufMax = got.n,
                                     !.buf = SubSeq(doc, rd.pos + 1, rd.pos + got.n)]
                   /\ stack' = Pop(stack)
                   /\ ret' = [val |-> <<>>, err |-> got.err]
              ELSE /\ s' = [s EXCEPT !.bufMax = got.n, !.bufIndex = 0,
                                     !.buf = SubSeq(doc, rd.pos + 1, rd.pos + got.n)]
                   /\ UNCHANGED <<stack, ret>>
    /\ UNCHANGED <<enc, api, ExportKeyOrder, doc, shape, p, out>>

\* nextTags, lines 211-788: one byte
nextTagsByte ==
    /\ Running("nextTags")
    /\ s.bufIndex < s.bufMax
    /\ LET leave(r) ==
               /\ s' = r.s
               /\ stack' = CASE r.ret = "cont" -> Append(Pop(stack), [Top EXCEPT !.tags = r.tags])
                             [] r.ret = "panic" -> <<>>
                             [] OTHER -> Pop(stack)
               /\ ret' = CASE r.ret = "tags" -> [val |-> r.tags, err |-> NoErr]
                           [] r.ret = "err" -> [val |-> <<>>, err |-> r.err]
                           [] OTHER -> NoRet
               /\ out' = IF r.ret = "panic" THEN [out EXCEPT !.state = "panic"] ELSE out
       IN  leave(scanByte(s, Top.tags))
    /\ UNCHANGED <<enc, api, ExportKeyOrder, doc, shape, rd, p>>

\* nextTag: hand out the next token that is not whitespace or a comment,
\* fetching a new batch from the scanner when the current one is used up
nextTag ==
    /\ Running("nextTag")
    /\ LET scanned == Top.pc = "scanned"
           tags == IF scanned THEN ret.val ELSE p.tags
           idx == IF scanned THEN 0 ELSE p.tagsIndex
           hits == {i \in idx..(Len(tags) - 1) : ~IsSkipped(tags[i + 1].state)}
           j == CHOOSE i \in hits : \A h \in hits : i <= h
       IN  IF scanned /\ ret.err # NoErr
           THEN /\ p' = [p EXCEPT !.tags = <<>>]
                /\ stack' = Pop(stack)
                /\ ret' = [val |-> NilV, err |-> ret.err]
           ELSE IF hits = {}
           THEN /\ p' = [p EXCEPT !.tags = tags, !.tagsIndex = Len(tags)]
                /\ stack' = Append(Pop(stack), [Top EXCEPT !.pc = "scanned"]) \o <<FNextTags>>
                /\ ret' = NoRet
           ELSE /\ p' = [p EXCEPT !.tags = tags, !.tagsIndex = j + 1]
                /\ stack' = Pop(stack)
                /\ ret' = [val |-> TagV(tags[j + 1]), err |-> NoErr]
    /\ UNCHANGED <<enc, api, ExportKeyOrder, doc, shape, rd, s, out>>

parse ==
    /\ Running("parse")
    /\ Apply(parseStep(Top, ret, p.ucl, ExportKeyOrder, api))
    /\ UNCHANGED <<enc, api, ExportKeyOrder, doc, shape, rd, s>>

parseValue ==
    /\ Running("parseValue")
    /\ Apply(parseValueStep(Top, ret, p.ucl, s.line))
    /\ UNCHANGED <<enc, api, ExportKeyOrder, doc, shape, rd, s>>

parseList ==
    /\ Running("parseList")
    /\ Apply(parseListStep(Top, ret, p.ucl, s.line))
    /\ UNCHANGED <<enc, api, ExportKeyOrder, doc, shape, rd, s>>

\* variant: io.EOF is handed to the caller
decodeErrVerbatim(err) == err

\* Decode, lines 330-333 (Ucl, 379-382): the error handed to the caller
decodeErr(err) == IF err = EOF THEN NoErr ELSE err

\* variant: an error comes with an empty root
DecodeRollback ==
    /\ out.state \in {"new", "called"}
    /\ out.state = "called" => stack = <<>>
    /\ IF out.state = "new"
       THEN /\ out' = [out EXCEPT !.state = "called"]
            /\ stack' = <<FParse(NoTag, Map(p.ucl), TRUE)>>
       ELSE /\ out' = [state |-> "returned",
                       ucl |-> IF decodeErr(IF api = "Parser" THEN p.err ELSE ret.err) = NoErr
                               THEN p.ucl ELSE EmptyMap,
                       err |-> decodeErr(IF api = "Parser" THEN p.err ELSE ret.err)]
            /\ stack' = stack
    /\ UNCHANGED <<enc, api, ExportKeyOrder, doc, shape, rd, s, p, ret>>

\* Decode / Ucl: call parse(nil, p.ucl); when it is back, return p.ucl and the error
Decode ==
    /\ out.state \in {"new", "called"}
    /\ out.state = "called" => stack = <<>>
    /\ IF out.state = "new"
       THEN /\ out' = [out EXCEPT !.state = "called"]
            /\ stack' = <<FParse(NoTag, Map(p.ucl), TRUE)>>
       ELSE /\ out' = [state |-> "returned", ucl |-> p.ucl,
                       err |-> decodeErr(IF api = "Parser" THEN p.err ELSE ret.err)]
            /\ stack' = stack
    /\ UNCHANGED <<enc, api, ExportKeyOrder, doc, shape, rd, s, p, ret>>

Next ==
    \/ Decode
    \/ parse
    \/ parseValue
    \/ parseList
    \/ nextTag
    \/ nextTagsRead
    \/ nextTagsByte

\* a reader that hands out what fits into the scanner's buffer and ends with
\* io.EOF
PlainReader == [pos |-> 0, chunk |-> BufSize, failAt |-> -1, failWithData |-> FALSE,
                failed |-> FALSE]

\* no Encoder in use
EncOff == [state |-> "off", v |-> NilV, todo |-> <<>>, w |-> <<>>]

\* NewDecoder / NewParser over one of readers holding d.doc, with the package's
\* ExportKeyOrder switch set to one of switches before the decode
InitWithReader(docs, apis, switches, readers) ==
    /\ api \in apis
    /\ ExportKeyOrder \in switches
    /\ \E d \in docs : doc = d.doc /\ shape = d.shape
    /\ rd \in readers
    /\ enc = EncOff
    /\ s = newScanner
    /\ p = [tags |-> <<>>, tagsIndex |-> 0, ucl |-> EmptyMap, err |-> NoErr]
    /\ stack = <<>>
    /\ ret = NoRet
    /\ out = [state |-> "new", ucl |-> EmptyMap, err |-> NoErr]

\* the same over the plain reader
InitWithSwitch(docs, apis, switches) == InitWithReader(docs, apis, switches, {PlainReader})

\* the same with the switch as the package initialises it
InitWith(docs, apis) == InitWithSwitch(docs, apis, {TRUE})

Done == out.state = "returned"

(***************************************************************************)
(* documents.  Three families, one specification each (further families   *)
(* are defined with the properties that need them):                        *)
(*   Spec       whole statements and blocks put one after the other        *)
(*   SpecChain  one statement: words joined by single spaces, then a       *)
(*              terminator or a block                                      *)
(*   SpecBytes  every byte string over a small alphabet                    *)
(***************************************************************************)
MaxPieces == 4
MaxWords == 3
MaxLen == 4

SeqsUpTo(S, n) == UNION {[1..k -> S] : k \in 0..n}

RECURSIVE Flatten(_)
Flatten(qs) == IF qs = <<>> THEN <<>> ELSE Head(qs) \o Flatten(Tail(qs))

\* the pieces of the statement family, by name
ScalarPieces == {"a1", "a2", "b1"}
PieceNames == ScalarPieces \cup {"open", "close", "list"}
PieceBytes(n) ==
    CASE n = "a1" -> <<"a", " ", "1", ";">>
      [] n = "a2" -> <<"a", " ", "2", ";">>
      [] n = "b1" -> <<"b", " ", "1", ";">>
      [] n = "open" -> <<"m", " ", "{">>
      [] n = "close" -> <<"}">>
      [] n = "list" -> <<"l", " ", "[", "1", ",", "2", "]", ";">>
PieceKey(n) == <<PieceBytes(n)[1]>>
PieceVal(n) == <<PieceBytes(n)[3]>>

StmtDocs ==
    {[doc |-> Flatten([i \in 1..Len(pcs) |-> PieceBytes(pcs[i])]), shape |-> pcs] :
        pcs \in SeqsUpTo(PieceNames, MaxPieces)}

\* the chain family: 1..MaxWords one-letter words, then a terminator
Words == {"a", "b"}
TermNames == {"semi", "map0", "map1", "list", "smap0", "smap1", "slist"}
TermBytes(n) ==
    CASE n = "semi" -> <<";">>
      [] n = "map0" -> <<"{", "}">>
      [] n = "map1" -> <<"{", "x", " ", "1", ";", "}">>
      [] n = "list" -> <<"[", "1", ",", "2", "]">>
      [] n = "smap0" -> <<" ", "{", "}">>
      [] n = "smap1" -> <<" ", "{", "x", " ", "1", ";", "}">>
      [] n = "slist" -> <<" ", "[", "1", ",", "2", "]">>

\* w1 w2 ... wn
RECURSIVE JoinWords(_)
JoinWords(ws) ==
    IF Len(ws) <= 1 THEN ws ELSE <<Head(ws), " ">> \o JoinWords(Tail(ws))

ChainDocs ==
    {[doc |-> JoinWords(sh.words) \o TermBytes(sh.term), shape |-> sh] :
        sh \in [words : SeqsUpTo(Words, MaxWords) \ {<<>>}, term : TermNames]}

\* the byte family
Alphabet == {"a", " ", ";", ",", "{", "}", "[", "]", "<"}
ByteDocs == {[doc |-> d, shape |-> <<>>] : d \in SeqsUpTo(Alphabet, MaxLen)}

Init == InitWith(StmtDocs, {"Decoder", "Parser"})
Spec == Init /\ [][Next]_vars

InitChain == InitWith(ChainDocs, {"Decoder", "Parser"})
SpecChain == InitChain /\ [][Next]_vars

InitBytes == InitWith(ByteDocs, {"Decoder", "Parser"})
SpecBytes == InitBytes /\ [][Next]_vars

(***************************************************************************)
(* reference values the properties compare the decoded tree with           *)
(***************************************************************************)
Range(q) == {q[i] : i \in 1..Len(q)}
Count(q, c) == Cardinality({i \in 1..Len(q) : q[i] = c})
OrderOf(m) == IF KeyOrder \in DOMAIN m THEN m[KeyOrder].v ELSE <<>>
UserKeys(m) == DOMAIN m \ {KeyOrder}

\* what inserting k -> v does to a map, by the rules of the format
RefInsert(m, k, v) ==
    IF k \in DOMAIN m
    THEN [m EXCEPT ![k] = IF IsList(@) THEN List(Append(@.v, v)) ELSE List(<<@, v>>)]
    ELSE [x \in DOMAIN m \cup {k, KeyOrder} |->
            IF x = k THEN v
            ELSE IF x = KeyOrder THEN Keys(Append(OrderOf(m), k))
            ELSE m[x]]

\* a map with the one key k
Single(k, v) == RefInsert(EmptyMap, k, v)

\* k1 -> {k2 -> ... {kn -> v}}
RECURSIVE Chain(_, _)
Chain(ks, v) == IF ks = <<>> THEN v ELSE Map(Single(Head(ks), Chain(Tail(ks), v)))

AllScalar(sh) == \A i \in 1..Len(sh) : sh[i] \in ScalarPieces

\* the values the statements of sh give key k, in statement order
RECURSIVE ValsOf(_, _)
ValsOf(sh, k) ==
    IF sh = <<>> THEN <<>>
    ELSE (IF PieceKey(Head(sh)) = k THEN <<Str(PieceVal(Head(sh)))>> ELSE <<>>)
         \o ValsOf(Tail(sh), k)

Promoted(vals) == IF Len(vals) = 1 THEN vals[1] ELSE List(vals)

\* m holds, for every key, what the scalar statements sh give it
HoldsStatements(m, sh) ==
    \A k \in {PieceKey(n) : n \in ScalarPieces} :
        IF ValsOf(sh, k) = <<>> THEN k \notin DOMAIN m
        ELSE k \in DOMAIN m /\ m[k] = Promoted(ValsOf(sh, k))

\* m holds, for every key it has, what some of the first statements of sh give it
HoldsSomeStatements(m, sh) ==
    \A k \in UserKeys(m) :
        \E n \in 1..Len(ValsOf(sh, k)) : m[k] = Promoted(SubSeq(ValsOf(sh, k), 1, n))

\* m { scalar statements }
Wrapped(sh) ==
    /\ Len(sh) >= 2
    /\ sh[1] = "open"
    /\ sh[Len(sh)] = "close"
    /\ AllScalar(SubSeq(sh, 2, Len(sh) - 1))

\* C1: after the statements k v1; ... k vn; of one map (the root, or the map
\* of a block m { ... }), the map holds k -> v1 when n = 1 and the list
\* k -> [v1, ..., vn] in statement order when n >= 2; while the statements are
\* being decoded the root holds this for the statements done so far.
DuplicateKeyPromotion ==
    /\ AllScalar(shape) => HoldsSomeStatements(p.ucl, shape)
    /\ Done /\ AllScalar(shape) => out.err = NoErr /\ HoldsStatements(out.ucl, shape)
    /\ Done /\ Wrapped(shape) =>
            /\ <<"m">> \in DOMAIN out.ucl
            /\ IsMap(out.ucl[<<"m">>])
            /\ HoldsStatements(out.ucl[<<"m">>].v, SubSeq(shape, 2, Len(shape) - 1))

DuplicateKeyPromotionWitness ==
    /\ Done
    /\ shape = <<"a1", "a2", "b1", "a1">>
    /\ out.ucl[<<"a">>] = List(<<Str(<<"1">>), Str(<<"2">>), Str(<<"1">>)>>)
    /\ out.ucl[<<"b">>] = Str(<<"1">>)

\* every map in a value
RECURSIVE MapsIn(_)
MapsIn(v) ==
    CASE v.t = "map" -> {v.v} \cup UNION {MapsIn(v.v[k]) : k \in DOMAIN v.v}
      [] v.t = "list" -> UNION {MapsIn(v.v[i]) : i \in DOMAIN v.v}
      [] OTHER -> {}

\* the maps the decoder holds: the root, the returned root, and the maps and
\* lists its running functions are filling
MapsHeld ==
    MapsIn(Map(p.ucl)) \cup MapsIn(Map(out.ucl))
    \cup UNION {IF stack[i].fn = "parse" THEN MapsIn(stack[i].parent)
                ELSE IF stack[i].fn = "parseList" THEN MapsIn(List(stack[i].parent))
                ELSE {} : i \in DOMAIN stack}

\* the side-list names each key of m once and nothing else
WellOrdered(m) ==
    /\ KeyOrder \in DOMAIN m => IsKeys(m[KeyOrder])
    /\ Len(OrderOf(m)) = Cardinality(UserKeys(m))
    /\ Range(OrderOf(m)) = UserKeys(m)

\* from m to n the side-list is unchanged or has the one new key at its end
OrderGrows(m, n) ==
    \/ OrderOf(n) = OrderOf(m)
    \/ \E k \in UserKeys(n) \ UserKeys(m) : OrderOf(n) = Append(OrderOf(m), k)

\* C2: with key-order recording on, the side-list of every map the decoder
\* holds names each distinct key of the map exactly once, its length is the
\* number of distinct keys, and every insertion into the root or into a map a
\* running parse is filling leaves the list as it was (repeated key) or puts
\* the new key at its end (first-insertion order).
KeyOrderInvariant ==
    /\ [](\A m \in MapsHeld : WellOrdered(m))
    /\ [][OrderGrows(p.ucl, p.ucl')]_vars
    /\ [][\A i \in DOMAIN stack \cap DOMAIN stack' :
            (/\ stack[i].fn = "parse" /\ stack'[i].fn = "parse"
             /\ IsMap(stack[i].parent) /\ IsMap(stack'[i].parent))
            => OrderGrows(stack[i].parent.v, stack'[i].parent.v)]_vars

KeyOrderInvariantWitness ==
    /\ Done
    /\ shape = <<"b1", "a1", "b1", "a2">>
    /\ out.ucl[KeyOrder] = Keys(<<<<"b">>, <<"a">>>>)
    /\ Cardinality(UserKeys(out.ucl)) = 2

\* the words of the chain document, as keys
WordKeys(ws) == [i \in 1..Len(ws) |-> <<ws[i]>>]
Front(q) == SubSeq(q, 1, Len(q) - 1)
IsStatement(sh) == sh.term = "semi" /\ Len(sh.words) >= 2
IsBlock(sh) == sh.term # "semi"

\* the value of the block a chain document ends with
TermValue(n) ==
    CASE n \in {"map0", "smap0"} -> Map(EmptyMap)
      [] n \in {"map1", "smap1"} -> Map(Single(<<"x">>, Str(<<"1">>)))
      [] n \in {"list", "slist"} -> List(<<Str(<<"1">>), Str(<<"2">>)>>)

NestingBeforeBlock ==
    Done /\ IsBlock(shape) =>
        /\ out.err = NoErr
        /\ Map(out.ucl) = Chain(WordKeys(shape.words), TermValue(shape.term))

NestingBeforeBlockWitness ==
    /\ Done
    /\ shape = [words |-> <<"a", "b", "a">>, term |-> "smap1"]
    /\ out.ucl[<<"a">>].v[<<"b">>].v[<<"a">>].v[<<"x">>] = Str(<<"1">>)
    /\ out.ucl[<<"a">>].v[KeyOrder] = Keys(<<<<"b">>>>)

Opens(q) == Count(q, "{") + Count(q, "[")
Closes(q) == Count(q, "}") + Count(q, "]")

\* C5: an input that opens more scopes than it closes is never decoded with
\* success (documents of plain words and punctuation, no '<').
ScopeBalanceAtEnd ==
    Done /\ "<" \notin Range(doc) /\ Opens(doc) > Closes(doc) => out.err # NoErr

\* C6: a close byte met while no scope is open makes decoding fail
\* (documents that open no scope at all).
StrayCloseFails ==
    Done /\ Opens(doc) = 0 /\ Closes(doc) > 0 => out.err # NoErr

\* C7: when the source is exhausted while the scope stack is empty, Decode
\* returns a nil error.
CleanEndIsSuccess ==
    Done /\ rd.pos = Len(doc) /\ s.bufMax = 0 /\ s.depth = <<>> => out.err = NoErr

CleanEndIsSuccessWitness ==
    /\ Done
    /\ rd.pos = Len(doc) /\ s.bufMax = 0 /\ s.depth = <<>>
    /\ ret.err = EOF
    /\ out.err = NoErr
    /\ UserKeys(out.ucl) # {}

\* the map body the pieces sh[i], sh[i+1], ... describe, put into m: the map,
\* the piece after the body, and what ended it ("close", or "eof" when the
\* pieces ran out; a block the pieces leave open gives its parent nothing)
RECURSIVE RefBody(_, _, _)
RefBody(sh, i, m) ==
    IF i > Len(sh) THEN [m |-> m, next |-> i, end |-> "eof"]
    ELSE CASE sh[i] \in ScalarPieces ->
                RefBody(sh, i + 1, RefInsert(m, PieceKey(sh[i]), Str(PieceVal(sh[i]))))
           [] sh[i] = "list" ->
                RefBody(sh, i + 1,
                        RefInsert(m, PieceKey(sh[i]), List(<<Str(<<"1">>), Str(<<"2">>)>>)))
           [] sh[i] = "close" -> [m |-> m, next |-> i + 1, end |-> "close"]
           [] sh[i] = "open" ->
                LET closed(inner) ==
                        IF inner.end = "close"
                        THEN RefBody(sh, inner.next, RefInsert(m, PieceKey(sh[i]), Map(inner.m)))
                        ELSE [m |-> m, next |-> inner.next, end |-> "eof"]
                IN  closed(RefBody(sh, i + 1, EmptyMap))

\* the root after the top-level statements of sh that are complete
RefRoot(sh) == RefBody(sh, 1, EmptyMap).m

\* C8: when Decode returns an error it returns the root map with it, and the
\* root holds exactly what the complete top-level statements in front of the
\* failure put into it.
PartialResultOnError ==
    Done /\ out.err # NoErr => out.ucl = RefRoot(shape)

PartialResultOnErrorWitness ==
    /\ Done
    /\ out.err # NoErr
    /\ shape = <<"a1", "a2", "open", "b1">>
    /\ out.ucl[<<"a">>] = List(<<Str(<<"1">>), Str(<<"2">>)>>)

\* the first block of sh is opened at top level, after complete statements,
\* and is still open where sh ends
FirstOpen(sh) == CHOOSE i \in 1..Len(sh) : sh[i] = "open" /\ \A j \in 1..(i - 1) : sh[j] # "open"
EndsInsideFirstBlock(sh) ==
    /\ "open" \in Range(sh)
    /\ \A j \in 1..(FirstOpen(sh) - 1) : sh[j] # "close"
    /\ \A j \in (FirstOpen(sh) + 1)..Len(sh) :
            Count(SubSeq(sh, FirstOpen(sh) + 1, j), "close")
                <= Count(SubSeq(sh, FirstOpen(sh) + 1, j), "open")

\* C9 as stated: when the input ends inside the open block m { ... the error
\* is unexpected EOF and the root holds m with the entries parsed so far.
UnclosedMapIsInRoot ==
    Done /\ EndsInsideFirstBlock(shape)
         /\ AllScalar(SubSeq(shape, FirstOpen(shape) + 1, Len(shape))) =>
        /\ out.err = ErrUnexpectedEOF
        /\ <<"m">> \in DOMAIN out.ucl
        /\ out.ucl[<<"m">>] = Map(RefRoot(SubSeq(shape, FirstOpen(shape) + 1, Len(shape))))

\* C9 as amended: when the input ends inside an open block the error is
\* unexpected EOF and the root holds the complete statements in front of the
\* block only: neither the block's key nor its entries are in it.
UnclosedMapIsDropped ==
    Done /\ EndsInsideFirstBlock(shape) =>
        /\ out.err = ErrUnexpectedEOF
        /\ <<"m">> \notin DOMAIN out.ucl
        /\ out.ucl = RefRoot(SubSeq(shape, 1, FirstOpen(shape) - 1))

UnclosedMapIsDroppedWitness ==
    /\ Done
    /\ shape = <<"b1", "open", "a1">>
    /\ out.err = ErrUnexpectedEOF
    /\ UserKeys(out.ucl) = {<<"b">>}

\* the scanner is about to read byte c
Reads(c) == Running("nextTags") /\ s.bufIndex < s.bufMax /\ s.buf[s.bufIndex + 1] = c

\* the scanner is between tokens
Idle == s.state \in {WHITESPACE, BRACEOPEN, BRACECLOSE}

\* the scanner's error for a ',' is on its way to the caller: nextTags has
\* returned it, or a function of the decoder has passed it on
CommaErrorRising ==
    /\ stack # <<>>
    /\ ret.err.e = "unexpected ,"
    /\ (Top.fn = "nextTag" \/ ~IsTag(ret.val))

\* C10 as stated: a top-level statement with a ',' in it (words, spaces and
\* commas, ended by ';', no scope opened anywhere) is not decoded with success.
CommaOutsideArrayFails ==
    Done /\ "," \in Range(doc) /\ Range(doc) \subseteq {"a", " ", ",", ";"}
         /\ Len(doc) > 0 /\ Last(doc) = ";" =>
        out.err # NoErr

\* C10 as amended: a ',' the scanner reads between tokens while the innermost
\* open scope is not '[' makes nextTags return the error "unexpected ','",
\* every function of the decoder passes that error on, and Decode returns it.
IdleCommaOutsideArrayFails ==
    /\ [][Reads(",") /\ Idle /\ curDepth(s) # "["
            => ret'.err = Err("unexpected ,", s.line) /\ stack' = Pop(stack)
               /\ Top.fn = "nextTags" /\ stack' # <<>> /\ stack'[Len(stack')].fn = "nextTag"]_vars
    /\ [][CommaErrorRising /\ Len(stack) > 1
            => ret'.err = ret.err /\ stack' = Pop(stack) /\ ~IsTag(ret'.val)]_vars
    /\ [][CommaErrorRising /\ Len(stack) = 1
            => ret'.err = ret.err /\ stack' = <<>> /\ (api = "Parser" => p'.err = ret.err)]_vars
    /\ [](Done /\ ret.err.e = "unexpected ," /\ ~IsTag(ret.val) => out.err = ret.err)

IdleCommaOutsideArrayFailsWitness ==
    /\ Done
    /\ doc = <<"{", "a", ";", ",">>
    /\ out.err = Err("unexpected ,", 1)

(***************************************************************************)
(* documents with comments: statements, comments on a line of their own,   *)
(* and comments right after the value of a statement                       *)
(***************************************************************************)
MaxNotes == 3

NoteNames == {"a1", "a1nl", "b1", "list", "hash", "block", "a1hash", "a1block"}
NoteBytes(n) ==
    CASE n = "a1nl" -> <<"a", " ", "1", "\n">>
      [] n = "hash" -> <<"#", "c", "\n">>
      [] n = "block" -> <<"/", "*", "c", "*", "/">>
      [] n = "a1hash" -> <<"a", " ", "1", "#", "c", "\n">>
      [] n = "a1block" -> <<"a", " ", "1", "/", "*", "c", "*", "/", ";">>
      [] OTHER -> PieceBytes(n)

NoteDocs ==
    {[doc |-> Flatten([i \in 1..Len(pcs) |-> NoteBytes(pcs[i])]), shape |-> pcs] :
        pcs \in SeqsUpTo(NoteNames, MaxNotes)}

InitNotes == InitWith(NoteDocs, {"Decoder", "Parser"})
SpecNotes == InitNotes /\ [][Next]_vars

\* the pieces of sh with every comment taken out
RECURSIVE Uncommented(_)
Uncommented(sh) ==
    IF sh = <<>> THEN <<>>
    ELSE (CASE Head(sh) \in {"hash", "block"} -> <<>>
            [] Head(sh) = "a1hash" -> <<"a1nl">>
            [] Head(sh) = "a1block" -> <<"a1">>
            [] OTHER -> <<Head(sh)>>)
         \o Uncommented(Tail(sh))

\* the root the comment-free statements sh decode to, by the rules of the format
RECURSIVE NoteRoot(_, _)
NoteRoot(sh, m) ==
    IF sh = <<>> THEN m
    ELSE NoteRoot(Tail(sh),
                  CASE Head(sh) \in {"a1", "a1nl"} -> RefInsert(m, <<"a">>, Str(<<"1">>))
                    [] Head(sh) = "b1" -> RefInsert(m, <<"b">>, Str(<<"1">>))
                    [] Head(sh) = "list" ->
                         RefInsert(m, <<"l">>, List(<<Str(<<"1">>), Str(<<"2">>)>>)))

\* C11: a document with comments (on a line of their own, between statements,
\* or right after a bare word on the same line) decodes without error to the
\* root of the document with the comments taken out.
CommentsContributeNothing ==
    Done => out.err = NoErr /\ out.ucl = NoteRoot(Uncommented(shape), EmptyMap)

\* the part of C11 the code keeps: comments between statements are dropped
CommentsBetweenStatements ==
    Done /\ Range(shape) \cap {"a1hash", "a1block"} = {}
        => out.err = NoErr /\ out.ucl = NoteRoot(Uncommented(shape), EmptyMap)

(***************************************************************************)
(* heredoc documents: a <<E, 1..MaxLines body lines, the terminator line   *)
(* E, then nothing, a statement or a list                                  *)
(***************************************************************************)
MaxLines == 2

\* body lines; the last two hold the terminator name after other bytes
BodyLines == {<<"x">>, <<"y">>, <<"x", "E">>, <<"x", ";", "E">>}
HereTails == {"none", "b1", "list"}

\* the lines, each with its end-of-line
RECURSIVE WithNewlines(_)
WithNewlines(ls) ==
    IF ls = <<>> THEN <<>> ELSE (Head(ls) \o <<"\n">>) \o WithNewlines(Tail(ls))

HereDocs ==
    {[doc |-> <<"a", " ", "<", "<", "E", "\n">> \o WithNewlines(sh.lines) \o <<"E", "\n">>
              \o (IF sh.tail = "none" THEN <<>> ELSE PieceBytes(sh.tail)),
      shape |-> sh] :
        sh \in [lines : SeqsUpTo(BodyLines, MaxLines) \ {<<>>}, tail : HereTails]}

InitHere == InitWith(HereDocs, {"Decoder", "Parser"})
SpecHere == InitHere /\ [][Next]_vars

\* the root of a heredoc document whose heredoc has the value v
HereRoot(sh, v) ==
    NoteRoot(IF sh.tail = "none" THEN <<>> ELSE <<sh.tail>>, Single(<<"a">>, Str(v)))

\* C12: the heredoc ends at the line that is the terminator name and at no
\* line that holds the name after other bytes (as in x;E); its value is the
\* body lines as written, up to the terminator line (with or without the
\* end-of-line in front of the terminator line), and what follows the
\* terminator line is decoded as the next statement.
HeredocEndsAtTerminatorLine ==
    Done =>
        /\ out.err = NoErr
        /\ out.ucl \in {HereRoot(shape, Front(WithNewlines(shape.lines))),
                        HereRoot(shape, WithNewlines(shape.lines))}

\* the part of C12 the code keeps: bodies without ';'
HeredocWithoutSemicolon ==
    Done /\ (\A i \in DOMAIN shape.lines : ";" \notin Range(shape.lines[i])) =>
        /\ out.err = NoErr
        /\ out.ucl = HereRoot(shape, Front(WithNewlines(shape.lines)))

\* the document is two words with one space between them and nothing after
IsWordPair(d) ==
    /\ Range(d) = {"a", " "}
    /\ Count(d, " ") = 1
    /\ Head(d) = "a"
    /\ Last(d) = "a"

SpaceAt(d) == CHOOSE i \in 1..Len(d) : d[i] = " "

\* C13: a key followed by a value and then the end of the input (the example
\* `a b` of the claim, over the words of the byte family) decodes without
\* error to the one entry key -> value.
ValueBeforeEndOfInput ==
    Done /\ IsWordPair(doc) =>
        /\ out.err = NoErr
        /\ out.ucl = Single(SubSeq(doc, 1, SpaceAt(doc) - 1),
                            Str(SubSeq(doc, SpaceAt(doc) + 1, Len(doc))))

(***************************************************************************)
(* block documents whose last statement is closed by the brace:            *)
(* m {, up to MaxBody statements, k 2} or k 2 }, then nothing, a statement *)
(* or a list                                                               *)
(***************************************************************************)
MaxBody == 2

FinalDocs ==
    {[doc |-> PieceBytes("open")
              \o Flatten([i \in 1..Len(sh.body) |-> PieceBytes(sh.body[i])])
              \o <<sh.last, " ", "2">> \o (IF sh.space THEN <<" ">> ELSE <<>>) \o <<"}">>
              \o (IF sh.tail = "none" THEN <<>> ELSE PieceBytes(sh.tail)),
      shape |-> sh] :
        sh \in [body : SeqsUpTo({"a1", "b1"}, MaxBody), last : {"a", "b"},
                space : BOOLEAN, tail : HereTails]}

InitFinal == InitWith(FinalDocs, {"Decoder", "Parser"})
SpecFinal == InitFinal /\ [][Next]_vars

\* the root of a block document, by the rules of the format
FinalRoot(sh) ==
    NoteRoot(IF sh.tail = "none" THEN <<>> ELSE <<sh.tail>>,
             Single(<<"m">>,
                    Map(RefInsert(NoteRoot(sh.body, EmptyMap), <<sh.last>>, Str(<<"2">>)))))

\* C14: when the last statement of m { ... } is k 2 closed by the brace, the
\* map gets k -> "2" (promoted with earlier values of k), the body ends at
\* that brace, and the map is inserted under m in the root, in front of what
\* follows the block.
FinalKeyClosedByBrace ==
    Done => out.err = NoErr /\ out.ucl = FinalRoot(shape)

\* the older Parser does what C14 says
FinalKeyClosedByBraceInParser ==
    Done /\ api = "Parser" => out.err = NoErr /\ out.ucl = FinalRoot(shape)

(***************************************************************************)
(* list documents: l [e1,e2,...] with 0..MaxElems elements (bare words and *)
(* a quoted string), a separator of "," or ", ", with or without a ';'     *)
(* after the list, then nothing or a statement                             *)
(***************************************************************************)
MaxElems == 3

ElemNames == {"1", "2", "q"}
ElemBytes(e) == IF e = "q" THEN <<"\"", "q", "\"">> ELSE <<e>>

\* e1 sep e2 sep ... en
RECURSIVE JoinElems(_, _)
JoinElems(es, sep) ==
    IF es = <<>> THEN <<>>
    ELSE IF Len(es) = 1 THEN ElemBytes(es[1])
    ELSE (ElemBytes(Head(es)) \o sep) \o JoinElems(Tail(es), sep)

ListDocs ==
    {[doc |-> <<"l", " ", "[">> \o JoinElems(sh.elems, sh.sep) \o <<"]">>
              \o (IF sh.semi THEN <<";">> ELSE <<>>)
              \o (IF sh.tail = "none" THEN <<>> ELSE PieceBytes(sh.tail)),
      shape |-> sh] :
        sh \in [elems : SeqsUpTo(ElemNames, MaxElems), sep : {<<",">>, <<",", " ">>},
                semi : BOOLEAN, tail : {"none", "b1"}]}

InitList == InitWith(ListDocs, {"Decoder", "Parser"})
SpecList == InitList /\ [][Next]_vars

\* the list the elements es stand for
ListOf(es) == List([i \in 1..Len(es) |-> Str(<<es[i]>>)])

\* C15: l [e1, ..., en] decodes to l -> the list of e1 ... en in the order
\* written, each element once, the last one (directly in front of the ']')
\* included; the ']' ends the list, so that a statement after it goes to the
\* root.
ListBody ==
    Done =>
        /\ out.err = NoErr
        /\ out.ucl = NoteRoot(IF shape.tail = "none" THEN <<>> ELSE <<shape.tail>>,
                              Single(<<"l">>, ListOf(shape.elems)))

ListBodyWitness ==
    /\ Done
    /\ shape.elems = <<"2", "q", "1">>
    /\ shape.tail = "b1"
    /\ out.ucl[<<"l">>] = List(<<Str(<<"2">>), Str(<<"q">>), Str(<<"1">>)>>)
    /\ out.ucl[<<"b">>] = Str(<<"1">>)

(***************************************************************************)
(* the chain documents decoded with the key-order switch on or off         *)
(***************************************************************************)
InitSwitch == InitWithSwitch(ChainDocs, {"Decoder", "Parser"}, BOOLEAN)
SpecSwitch == InitSwitch /\ [][Next]_vars

HasNoKeyOrder(v) == \A m \in MapsIn(v) : KeyOrder \notin DOMAIN m

\* C17: with ExportKeyOrder false for the whole decode no map of the decoded
\* tree (the root, the maps of brace blocks, the one-key maps of implicit
\* nesting) holds the reserved key.
NoKeyOrderWhenDisabled ==
    Done /\ ~ExportKeyOrder => HasNoKeyOrder(Map(out.ucl))

\* the part of C17 the code keeps: the root and the maps of brace blocks
NoKeyOrderInParsedMaps ==
    Done /\ ~ExportKeyOrder =>
        /\ KeyOrder \notin DOMAIN out.ucl
        /\ Len(shape.words) = 1 => HasNoKeyOrder(Map(out.ucl))

(***************************************************************************)
(* a decode of the statement documents while another goroutine assigns the *)
(* package variable ExportKeyOrder.  The assignment races with the read in *)
(* parse; the read sees the value of before or after it, which the         *)
(* interleaving of the two actions gives.                                  *)
(***************************************************************************)
\* ExportKeyOrder = v, executed by another goroutine during the decode
SetExportKeyOrder ==
    /\ out.state = "called"
    /\ ExportKeyOrder' = ~ExportKeyOrder
    /\ UNCHANGED <<enc, api, doc, shape, rd, s, p, stack, ret, out>>

NextShared ==
    \/ Next
    \/ SetExportKeyOrder

InitShared == InitWithSwitch(StmtDocs, {"Decoder", "Parser"}, BOOLEAN)
SpecShared == InitShared /\ [][NextShared]_vars

\* the same decodes with the switch left alone
SpecAlone == InitShared /\ [][Next]_vars

\* v without the side-lists of its maps
RECURSIVE StripOrder(_)
StripOrder(v) ==
    CASE v.t = "map" -> Map([k \in UserKeys(v.v) |-> StripOrder(v.v[k])])
      [] v.t = "list" -> List([i \in DOMAIN v.v |-> StripOrder(v.v[i])])
      [] OTHER -> v

\* what a decode that succeeds returns when nothing changes the switch
DecodedAlone ==
    Done /\ out.err = NoErr =>
        Map(out.ucl) = IF ExportKeyOrder THEN Map(RefRoot(shape))
                       ELSE StripOrder(Map(RefRoot(shape)))

\* C18: a decode during which another goroutine changes ExportKeyOrder
\* returns what it returns when run alone, with the switch on or with the
\* switch off: every map it filled has its full side-list, or none has one.
SwitchIsSessionScoped ==
    Done /\ out.err = NoErr =>
        \/ Map(out.ucl) = Map(RefRoot(shape))
        \/ Map(out.ucl) = StripOrder(Map(RefRoot(shape)))

(***************************************************************************)
(* terminator documents: the same 1..MaxStmts statements twice, in block x *)
(* each ended by ';' and in block y each ended by an end-of-line           *)
(***************************************************************************)
MaxStmts == 2

StmtKinds == {"bare", "quoted", "novalue", "slash", "list"}
StmtBytes(n) ==
    CASE n = "bare" -> <<"a", " ", "1">>
      [] n = "quoted" -> <<"b", " ", "\"", "q", "\"">>
      [] n = "novalue" -> <<"c">>
      [] n = "slash" -> <<"/", "k", " ", "/", "v">>
      [] n = "list" -> <<"l", " ", "[", "1", ",", "2", "]">>

\* the statements, each followed by the terminator
RECURSIVE Terminated(_, _)
Terminated(ks, term) ==
    IF ks = <<>> THEN <<>>
    ELSE (StmtBytes(Head(ks)) \o <<term>>) \o Terminated(Tail(ks), term)

TermDocs ==
    {[doc |-> <<"x", " ", "{">> \o Terminated(ks, ";") \o <<"}">>
              \o <<"y", " ", "{">> \o Terminated(ks, "\n") \o <<"}">>,
      shape |-> ks] :
        ks \in SeqsUpTo(StmtKinds, MaxStmts) \ {<<>>}}

InitTerm == InitWith(TermDocs, {"Decoder", "Parser"})
SpecTerm == InitTerm /\ [][Next]_vars

\* the map the statements ks decode to, by the rules of the format
RECURSIVE TermMap(_, _)
TermMap(ks, m) ==
    IF ks = <<>> THEN m
    ELSE TermMap(Tail(ks),
                 CASE Head(ks) = "bare" -> RefInsert(m, <<"a">>, Str(<<"1">>))
                   [] Head(ks) = "quoted" -> RefInsert(m, <<"b">>, Str(<<"q">>))
                   [] Head(ks) = "novalue" -> RefInsert(m, <<"c">>, NilV)
                   [] Head(ks) = "slash" -> RefInsert(m, <<"/", "k">>, Str(<<"/", "v">>))
                   [] Head(ks) = "list" ->
                        RefInsert(m, <<"l">>, List(<<Str(<<"1">>), Str(<<"2">>)>>)))

\* C19: statements ended by ';' and the same statements ended by an
\* end-of-line decode to the same map, whichever token ends a statement
\* (bare word, quoted string, slash value, key with no value, list).
NewlineEqualsSemicolon ==
    Done =>
        /\ out.err = NoErr
        /\ {<<"x">>, <<"y">>} \subseteq DOMAIN out.ucl
        /\ out.ucl[<<"x">>] = out.ucl[<<"y">>]

\* the part of C19 the code keeps: statements that no slash value ends
NewlineEqualsSemicolonAfterWords ==
    Done /\ "slash" \notin Range(shape) =>
        /\ out.err = NoErr
        /\ {<<"x">>, <<"y">>} \subseteq DOMAIN out.ucl
        /\ out.ucl[<<"x">>] = Map(TermMap(shape, EmptyMap))
        /\ out.ucl[<<"y">>] = Map(TermMap(shape, EmptyMap))

\* v is a value of the Value Model: a scalar string, the null of a value-less
\* key, a list of values, or a map of values with, under the reserved key
\* only, a list of key names
RECURSIVE IsValue(_)
IsValue(v) ==
    CASE v.t = "string" -> TRUE
      [] v.t = "nil" -> TRUE
      [] v.t = "list" -> \A i \in DOMAIN v.v : IsValue(v.v[i])
      [] v.t = "map" -> \A k \in DOMAIN v.v :
                            IF k = KeyOrder THEN IsKeys(v.v[k]) ELSE IsValue(v.v[k])
      [] OTHER -> FALSE

\* C20: after Decode has returned, with or without an error, every value of
\* the returned root is a value of the Value Model; no scanner token is in
\* the tree.
ValueModelTypes ==
    Done => IsValue(Map(out.ucl))

(***************************************************************************)
(* the chain documents read from a byte source that fails: after 0 to      *)
(* MaxFailAt bytes (or at the end of the document, when that comes first)  *)
(* the source reports ErrRead, with or without bytes                       *)
(***************************************************************************)
MaxFailAt == 3

FailingReaders ==
    {[PlainReader EXCEPT !.failAt = k, !.failWithData = w] :
        k \in 0..MaxFailAt, w \in BOOLEAN}

InitReader ==
    InitWithReader(ChainDocs, {"Decoder", "Parser"}, {TRUE}, FailingReaders \cup {PlainReader})
SpecReader == InitReader /\ [][Next]_vars

\* C21: when the byte source has reported an error other than io.EOF, with
\* bytes or without, Decode returns that error and not success or another
\* error.
ReadErrorsAreReturned ==
    Done /\ rd.failed => out.err = ErrRead

\* the part of C21 the code keeps: an error that comes with bytes
ReadErrorsWithBytesAreReturned ==
    Done /\ rd.failed /\ rd.failWithData /\ rd.pos > 0 => out.err = ErrRead

(***************************************************************************)
(* unnamed/part_000: the Encoder.  Encode walks the value; the work still  *)
(* to do is a list of Write calls and doEncode calls, the first one next.  *)
(* A nil interface value and a missing map entry have reflect.Invalid.     *)
(***************************************************************************)
parentMap == 0
parentArray == 1
DefaultLineSeparator == <<"\n">>
DefaultNilValue == <<"n", "i", "l">>
DefaultIndent == <<"\t">>
baSOL == <<"<", "<", "E", "O", "S", "T", "R", "\n">>
baEOL == <<"\n", "E", "O", "S", "T", "R">>

\* e.write(data...): one Write call; role says what the bytes are
WriteItem(role, data) ==
    [op |-> "write", role |-> role, data |-> data, v |-> NilV, parentType |-> 0, indent |-> 0]

\* e.doEncode(v, parentType, indent)
EncodeItem(v, parentType, indent) ==
    [op |-> "doEncode", role |-> "", data |-> <<>>, v |-> v, parentType |-> parentType,
     indent |-> indent]

\* reflect.Value.Kind, after Ptr and Interface have been followed
Kind(v) ==
    CASE v.t \in {"list", "keys"} -> "slice"
      [] v.t = "map" -> "map"
      [] v.t = "string" -> "string"
      [] v.t = "nil" -> "invalid"
      [] OTHER -> "struct"

\* the elements of a []interface{} or of a []string
Elems(v) == IF v.t = "keys" THEN [i \in DOMAIN v.v |-> Str(v.v[i])] ELSE v.v

mkIndent(count) == Flatten([i \in 1..count |-> DefaultIndent])

\* strconv.Quote, for the bytes of the model
QuoteByte(c) ==
    CASE c = "\"" -> <<"\\", "\"">>
      [] c = "\\" -> <<"\\", "\\">>
      [] c = "\n" -> <<"\\", "n">>
      [] c = "\t" -> <<"\\", "t">>
      [] OTHER -> <<c>>
Quote(str) == (<<"\"">> \o Flatten([i \in 1..Len(str) |-> QuoteByte(str[i])])) \o <<"\"">>

\* encodeStr: quote every string that has a byte that is not alphanumeric
encodeStr(str) ==
    LET quoted(qs) == IF \E i \in 2..(Len(qs) - 1) : ~IsAlnum(qs[i]) THEN qs ELSE str
    IN  quoted(Quote(str))

\* encodeMap: what is done for the value cv of a key
encodeMapValue(cv, indent) ==
    CASE Kind(cv) = "slice" -> <<EncodeItem(cv, parentMap, indent)>>
      [] Kind(cv) \in {"map", "struct"} ->
            <<WriteItem("punct", <<"{">> \o DefaultLineSeparator),
              EncodeItem(cv, parentMap, indent + 1),
              WriteItem("punct", mkIndent(indent) \o <<"}">>)>>
      [] OTHER -> <<EncodeItem(cv, parentMap, indent + 1)>>

\* encodeMap: one turn of the loop over the keys, for the i-th key k
encodeMapEntry(i, k, m, parentType, indent) ==
    LET entry(cv) ==
            (IF i > 1 THEN <<WriteItem("sep", DefaultLineSeparator)>> ELSE <<>>)
            \o <<WriteItem("key", mkIndent(indent) \o encodeStr(k))>>
            \o (IF Kind(cv) # "invalid" THEN <<WriteItem("punct", <<" ">>)>> ELSE <<>>)
            \o encodeMapValue(cv, indent)
            \o (IF parentType # parentArray THEN <<WriteItem("punct", <<";">>)>> ELSE <<>>)
    IN  entry(IF k \in DOMAIN m THEN m[k] ELSE NilV)

\* encodeMap: the loop over keys, the side-list or v.MapKeys()
encodeMapKeys(keys, m, parentType, indent) ==
    Flatten([i \in 1..Len(keys) |-> encodeMapEntry(i, keys[i], m, parentType, indent)])
    \o (IF Len(keys) > 0 THEN <<WriteItem("sep", DefaultLineSeparator)>> ELSE <<>>)

\* encodeSlice
encodeSliceItems(vs, indent) ==
    LET indents == mkIndent(indent)
        elem(i, cv) ==
            (IF i > 1 THEN <<WriteItem("punct", <<",">>)>> ELSE <<>>)
            \o <<WriteItem("sep", DefaultLineSeparator)>>
            \o (CASE Kind(cv) = "slice" -> <<EncodeItem(cv, parentArray, indent)>>
                  [] Kind(cv) \in {"map", "struct"} ->
                        <<WriteItem("punct", (DefaultIndent \o indents) \o
                                             (<<"{">> \o DefaultLineSeparator)),
                          EncodeItem(cv, parentArray, indent + 2),
                          WriteItem("punct", (DefaultIndent \o indents) \o <<"}">>)>>
                  [] OTHER -> <<EncodeItem(cv, parentArray, indent + 1)>>)
    IN  <<WriteItem("punct", <<"[">>)>>
        \o Flatten([i \in 1..Len(vs) |-> elem(i, vs[i])])
        \o (IF Len(vs) > 0 THEN <<WriteItem("sep", DefaultLineSeparator \o indents)>> ELSE <<>>)
        \o <<WriteItem("punct", <<"]">>)>>

\* encodeScalar, case reflect.String
encodeString(str) ==
    LET mlstring == Len(str) > 160 /\ Cardinality({i \in 1..Len(str) : str[i] = "\n"}) > 3
    IN  IF mlstring
        THEN <<WriteItem("value", baSOL), WriteItem("value", str), WriteItem("value", baEOL)>>
        ELSE IF Len(str) = 0 THEN <<WriteItem("value", <<"\"", "\"">>)>>
        ELSE IF str[1] # "/" THEN <<WriteItem("value", encodeStr(str))>>
        ELSE <<WriteItem("value", str)>>

\* encodeScalar
encodeScalarItems(v, parentType, indent) ==
    (IF parentType = parentArray THEN <<WriteItem("sep", mkIndent(indent))>> ELSE <<>>)
    \o (IF Kind(v) = "string" THEN encodeString(v.v)
        ELSE <<WriteItem("value", <<" ">> \o DefaultNilValue)>>)

EncTop == Head(enc.todo)
Encoding(kinds) ==
    /\ enc.state = "running"
    /\ enc.todo # <<>>
    /\ EncTop.op = "doEncode"
    /\ Kind(EncTop.v) \in kinds

\* the orders v.MapKeys() can give the keys in
MapKeys(m) == {q \in [1..Cardinality(DOMAIN m) -> DOMAIN m] : Range(q) = DOMAIN m}

\* Encoder.Encode: call doEncode(v, parentMap, 0), return when it is back
Encode ==
    /\ \/ enc.state = "new"
          /\ enc' = [enc EXCEPT !.state = "running",
                                !.todo = <<EncodeItem(enc.v, parentMap, 0)>>]
       \/ enc.state = "running" /\ enc.todo = <<>>
          /\ enc' = [enc EXCEPT !.state = "returned"]
    /\ UNCHANGED <<api, ExportKeyOrder, doc, shape, rd, s, p, stack, ret, out>>

\* encodeMap: by the side-list when the map has one that is a []string, by
\* v.MapKeys() otherwise
encodeMap ==
    /\ Encoding({"map"})
    /\ LET m == EncTop.v.v
       IN  IF KeyOrder \in DOMAIN m /\ m[KeyOrder].t = "keys"
           THEN enc' = [enc EXCEPT !.todo =
                            encodeMapKeys(m[KeyOrder].v, m, EncTop.parentType, EncTop.indent)
                            \o Tail(enc.todo)]
           ELSE \E keys \in MapKeys(m) :
                    enc' = [enc EXCEPT !.todo =
                                encodeMapKeys(keys, m, EncTop.parentType, EncTop.indent)
                                \o Tail(enc.todo)]
    /\ UNCHANGED <<api, ExportKeyOrder, doc, shape, rd, s, p, stack, ret, out>>

encodeSlice ==
    /\ Encoding({"slice"})
    /\ enc' = [enc EXCEPT !.todo = encodeSliceItems(Elems(EncTop.v), EncTop.indent)
                                   \o Tail(enc.todo)]
    /\ UNCHANGED <<api, ExportKeyOrder, doc, shape, rd, s, p, stack, ret, out>>

encodeScalar ==
    /\ Encoding({"string", "invalid"})
    /\ enc' = [enc EXCEPT !.todo = encodeScalarItems(EncTop.v, EncTop.parentType, EncTop.indent)
                                   \o Tail(enc.todo)]
    /\ UNCHANGED <<api, ExportKeyOrder, doc, shape, rd, s, p, stack, ret, out>>

\* Encoder.write: one Write call on the io.Writer, none for no bytes
write ==
    /\ enc.state = "running"
    /\ enc.todo # <<>>
    /\ EncTop.op = "write"
    /\ enc' = [enc EXCEPT !.todo = Tail(@),
                          !.w = IF EncTop.data = <<>> THEN @
                                ELSE Append(@, [role |-> EncTop.role, data |-> EncTop.data])]
    /\ UNCHANGED <<api, ExportKeyOrder, doc, shape, rd, s, p, stack, ret, out>>

NextEncoder ==
    \/ Encode
    \/ encodeMap
    \/ encodeSlice
    \/ encodeScalar
    \/ write

\* NewEncoder(w).Encode(v) for one of the values vs
InitEncoder(vs) ==
    /\ api = "Encoder"
    /\ ExportKeyOrder = TRUE
    /\ doc = <<>>
    /\ shape = <<>>
    /\ rd = PlainReader
    /\ s = newScanner
    /\ p = [tags |-> <<>>, tagsIndex |-> 0, ucl |-> EmptyMap, err |-> NoErr]
    /\ stack = <<>>
    /\ ret = NoRet
    /\ out = [state |-> "new", ucl |-> EmptyMap, err |-> NoErr]
    /\ \E v \in vs : enc = [state |-> "new", v |-> v, todo |-> <<>>, w |-> <<>>]

(***************************************************************************)
(* values for the Encoder: maps with or without the keys a and b and the   *)
(* reserved key, nested under a to depth MaxNest; under the reserved key a *)
(* []string, a []interface{}, a string or nil                              *)
(***************************************************************************)
MaxNest == 1

SideLists == {Keys(<<>>), Keys(<<<<"a">>>>), Keys(<<<<"b">>, <<"a">>>>)}
OtherOrders == {List(<<Str(<<"a">>)>>), Str(<<"a">>), NilV}
Absent == [t |-> "absent"]

\* the map with a -> va, b -> vb and the reserved key -> o, Absent for no entry
MapOf(va, vb, o) ==
    [k \in {x \in {<<"a">>, <<"b">>, KeyOrder} :
                (CASE x = <<"a">> -> va [] x = <<"b">> -> vb [] OTHER -> o) # Absent} |->
        CASE k = <<"a">> -> va [] k = <<"b">> -> vb [] OTHER -> o]

RECURSIVE EncValues(_)
EncValues(n) ==
    LET flat == {Str(<<"1">>), NilV, List(<<Str(<<"1">>), Str(<<"/", "s">>)>>)}
    IN  IF n = 0 THEN flat
        ELSE flat \cup {Map(MapOf(va, vb, o)) :
                            va \in EncValues(n - 1) \cup {Absent},
                            vb \in {Str(<<"1">>), Absent},
                            o \in SideLists \cup OtherOrders \cup {Absent}}

EncInputs == EncValues(MaxNest + 1) \ EncValues(0)

InitEnc == InitEncoder(EncInputs)
SpecEncoder == InitEnc /\ [][NextEncoder]_vars

\* the Write call wr writes key k as the key of a map entry
WritesKey(wr, k) ==
    /\ wr.role = "key"
    /\ \E n \in 0..(MaxNest + 2) : wr.data = mkIndent(n) \o encodeStr(k)

\* every map in v that has the reserved key has a []string under it
OrdersAreStringSlices(v) ==
    \A m \in MapsIn(v) : KeyOrder \in DOMAIN m => IsKeys(m[KeyOrder])

\* C22: whatever the maps handed to the Encoder hold under the reserved key,
\* the Encoder never writes the reserved key's name as the key of an entry.
EncoderHidesReservedKey ==
    \A i \in DOMAIN enc.w : ~WritesKey(enc.w[i], KeyOrder)

\* the part of C22 the code keeps: maps whose side-list is a []string
EncoderHidesStringSliceOrder ==
    OrdersAreStringSlices(enc.v) => \A i \in DOMAIN enc.w : ~WritesKey(enc.w[i], KeyOrder)

(***************************************************************************)
(* documents that open with a block comment: the comment's body is made of *)
(* letters, blanks and stars, and one statement follows the closer         *)
(***************************************************************************)
MaxComment == 3

CommentBodyBytes == {"a", " ", "*"}
CommentTails == {"b1", "list"}

CommentDocs ==
    {[doc |-> <<"/", "*">> \o body \o <<"*", "/">> \o PieceBytes(tl),
      shape |-> [body |-> body, tail |-> tl]] :
        body \in SeqsUpTo(CommentBodyBytes, MaxComment), tl \in CommentTails}

InitComment == InitWith(CommentDocs, {"Decoder", "Parser"})
SpecComment == InitComment /\ [][Next]_vars

\* the number of bytes of the document the scanner has gone through
Scanned == IF s.bufIndex >= s.bufMax THEN rd.pos ELSE rd.pos - (s.bufMax - s.bufIndex)

\* the offset right after the first */ of the comment (the body has no slash)
CloserEnd == Len(shape.body) + 4

InComment == s.state \in {LCOMMENT, LCOMMENT_CLOSING}

\* the root the statement after the comment decodes to
CommentRoot ==
    IF shape.tail = "b1" THEN RefInsert(EmptyMap, <<"b">>, Str(<<"1">>))
    ELSE RefInsert(EmptyMap, <<"l">>, List(<<Str(<<"1">>), Str(<<"2">>)>>))

\* C23: the scanner is in the comment until it has gone through the first */
\* and out of it from then on, whatever the body (stars included, also a star
\* right before the closer), and the text after the closer is scanned as
\* usual: the statement after the comment is decoded.
BlockCommentCloser ==
    /\ Scanned >= CloserEnd => ~InComment
    /\ Done => out.err = NoErr /\ out.ucl = CommentRoot

\* the part of C23 the code keeps: bodies that do not end in an odd run of stars
RECURSIVE TrailingStars(_)
TrailingStars(body) ==
    IF body = <<>> \/ body[Len(body)] # "*" THEN 0
    ELSE 1 + TrailingStars(SubSeq(body, 1, Len(body) - 1))

BlockCommentCloserEvenStars ==
    TrailingStars(shape.body) % 2 = 0 =>
        /\ Scanned >= CloserEnd => ~InComment
        /\ Scanned < CloserEnd - 1 /\ Scanned >= 2 => InComment
        /\ Done => out.err = NoErr /\ out.ucl = CommentRoot

(***************************************************************************)
(* documents with a heredoc where a key is expected and where a value is   *)
(* expected, in the root and in a block, among other statements            *)
(***************************************************************************)
MaxHere == 3

HereText == <<"<", "<", "E", "\n", "x", "\n", "E", "\n">>
AtKey == {"here", "mhere"}
AtValue == {"ahere", "mahere"}
PosNames == AtKey \cup AtValue \cup {"b1", "list"}
PosBytes(n) ==
    CASE n = "here" -> HereText
      [] n = "mhere" -> (<<"m", " ", "{">> \o HereText) \o <<"}">>
      [] n = "ahere" -> <<"a", " ">> \o HereText
      [] n = "mahere" -> (<<"m", " ", "{", "a", " ">> \o HereText) \o <<"}">>
      [] OTHER -> PieceBytes(n)

PosDocs ==
    {[doc |-> Flatten([i \in 1..Len(pcs) |-> PosBytes(pcs[i])]), shape |-> pcs] :
        pcs \in SeqsUpTo(PosNames, MaxHere)}

InitPos == InitWith(PosDocs, {"Decoder", "Parser"})
SpecPos == InitPos /\ [][Next]_vars

\* the root the statements sh decode to when every heredoc is the value of
\* the key in front of it and ends its statement
RECURSIVE PosRoot(_, _)
PosRoot(sh, m) ==
    IF sh = <<>> THEN m
    ELSE PosRoot(Tail(sh),
                 CASE Head(sh) = "ahere" -> RefInsert(m, <<"a">>, Str(<<"x">>))
                   [] Head(sh) = "mahere" ->
                        RefInsert(m, <<"m">>, Map(Single(<<"a">>, Str(<<"x">>))))
                   [] OTHER -> NoteRoot(<<Head(sh)>>, m))

HasHeredocAtKey(sh) == \E i \in DOMAIN sh : sh[i] \in AtKey

\* C24: a heredoc where a key is expected makes decoding fail with the
\* unexpected-multi-line-string error; a heredoc where a value is expected
\* is the scalar of its key and ends the statement, and what follows it is
\* decoded as the next statement.
HeredocPosition ==
    Done =>
        IF HasHeredocAtKey(shape) THEN out.err = errUnexpectedMultiline
        ELSE out.err = NoErr /\ out.ucl = PosRoot(shape, EmptyMap)

HeredocPositionWitness ==
    /\ Done
    /\ Len(shape) > 2
    /\ shape[1] \in AtValue
    /\ ~HasHeredocAtKey(Front(shape))
    /\ shape[Len(shape)] \in AtKey
    /\ out.err = errUnexpectedMultiline
    /\ out.ucl = PosRoot(Front(shape), EmptyMap)

(***************************************************************************)
(* lists whose body is made of a word, commas and the tokens a list does   *)
(* not take: a [ body ]                                                    *)
(***************************************************************************)
MaxItems == 3

NotInList == {";", ":", "="}
ItemBytes == {"1", ","} \cup NotInList

SepDocs ==
    {[doc |-> (<<"a", " ", "[">> \o body) \o <<"]">>, shape |-> body] :
        body \in SeqsUpTo(ItemBytes, MaxItems)}

InitSep == InitWith(SepDocs, {"Decoder", "Parser"})
SpecSep == InitSep /\ [][Next]_vars

\* C25: a list with a colon, an equal sign or a semicolon between its
\* brackets is never decoded without error.
SeparatorsInListFail ==
    Done /\ Range(shape) \cap NotInList # {} => out.err # NoErr

\* the part of C25 the code keeps: the token stands where the list expects an
\* element, right after the '[' or right after a comma
FirstNotInList(body) == CHOOSE i \in DOMAIN body :
    body[i] \in NotInList /\ \A j \in 1..(i - 1) : body[j] \notin NotInList

SeparatorsAtElementFail ==
    Done /\ Range(shape) \cap NotInList # {}
         /\ (FirstNotInList(shape) = 1 \/ shape[FirstNotInList(shape) - 1] = ",")
        => out.err # NoErr

(***************************************************************************)
(* bare words with backslashes: a statement w1 w2; or a list l [w1,w2],    *)
(* at the start of the document or after another statement                 *)
(***************************************************************************)
MaxWord == 2

WordBytes == {"a", "\\"}
SlashedWords == SeqsUpTo(WordBytes, MaxWord) \ {<<>>}

WordDocs ==
    {[doc |-> (IF sh.pre = "b1" THEN PieceBytes("b1") ELSE <<>>)
              \o (IF sh.form = "stmt"
                  THEN ((sh.w1 \o <<" ">>) \o sh.w2) \o <<";">>
                  ELSE ((<<"l", " ", "[">> \o sh.w1) \o <<",">>) \o (sh.w2 \o <<"]">>)),
      shape |-> sh] :
        sh \in [pre : {"none", "b1"}, form : {"stmt", "list"},
                w1 : SlashedWords, w2 : SlashedWords]}

InitWord == InitWith(WordDocs, {"Decoder", "Parser"})
SpecWord == InitWord /\ [][Next]_vars

HasBackslash(w) == "\\" \in Range(w)

\* C26: a document with a backslash in a bare word, at whatever position of
\* the word, is not decoded without error.
BackslashInBareWordFails ==
    Done /\ (HasBackslash(shape.w1) \/ HasBackslash(shape.w2)) => out.err # NoErr

\* the part of C26 the code keeps: a backslash after the first byte of a word
BackslashInsideBareWordFails ==
    Done /\ (HasBackslash(Tail(shape.w1)) \/ HasBackslash(Tail(shape.w2)))
        => out.err # NoErr

(***************************************************************************)
(* quoted strings: a "body"; followed by a statement, the body made of     *)
(* letters and escape pairs, read through readers that deliver the         *)
(* document in pieces of 1..MaxChunk bytes or in one piece                 *)
(***************************************************************************)
MaxQuoted == 2
MaxChunk == 4

QuotedItems == {"x", "escN", "escQuote", "escBreak"}
QuotedBytes(n) ==
    CASE n = "x" -> <<"x">>
      [] n = "escN" -> <<"\\", "n">>
      [] n = "escQuote" -> <<"\\", "\"">>
      [] n = "escBreak" -> <<"\\", "\n">>

\* what the item stands for in the value
QuotedText(n) ==
    CASE n = "x" -> <<"x">>
      [] n = "escN" -> <<"\n">>
      [] n = "escQuote" -> <<"\"">>
      [] n = "escBreak" -> <<"\n">>

QuotedBody(items) == Flatten([i \in 1..Len(items) |-> QuotedBytes(items[i])])

QuotedDocs ==
    {[doc |-> ((<<"a", " ", "\"">> \o QuotedBody(sh.items)) \o <<"\"", ";">>)
              \o PieceBytes(sh.tail),
      shape |-> sh] :
        sh \in [items : SeqsUpTo(QuotedItems, MaxQuoted) \ {<<>>}, tail : {"b1", "list"}]}

ChunkReaders == {[PlainReader EXCEPT !.chunk = k] : k \in 1..MaxChunk}

InitQuoted ==
    InitWithReader(QuotedDocs, {"Decoder", "Parser"}, {TRUE}, ChunkReaders \cup {PlainReader})
SpecQuoted == InitQuoted /\ [][Next]_vars

\* the offset of the quote that closes the string
QuoteCloser == 3 + Len(QuotedBody(shape.items))

Breaks(items) == Cardinality({i \in DOMAIN items : items[i] = "escBreak"})

QuotedRoot ==
    NoteRoot(<<shape.tail>>,
             Single(<<"a">>, Str(Flatten([i \in 1..Len(shape.items) |-> QuotedText(shape.items[i])]))))

\* C27: the scanner reads a quoted string up to the first unescaped quote, a
\* backslash and the byte after it being a pair; an escaped line break adds
\* one to the line counter; the value is the text unescaped once
\* (a "x\ny"; has the value x, line feed, y).
QuotedStrings ==
    \* the scanner is in the string up to the first quote without a backslash
    \* in front of it: no escaped quote and no escaped line break closes it
    /\ Scanned >= 3 /\ Scanned <= QuoteCloser => s.state = QUOTE
    \* an escaped line break counts as one line
    /\ Done => s.line = 1 + Breaks(shape.items)
    \* the text is unescaped once, when the token closes
    /\ Done /\ Breaks(shape.items) = 0 => out.err = NoErr /\ out.ucl = QuotedRoot

\* the part of C27 the code keeps: no pair is split between two reads
QuotedStringsInOneRead == rd.chunk = BufSize => QuotedStrings

(***************************************************************************)
(* slash values: /body/ 1; followed by a statement, the body made of       *)
(* letters and escape pairs                                                *)
(***************************************************************************)
MaxSlash == 2

SlashItems == {"a", "escSlash", "escB"}
SlashBytes(n) ==
    CASE n = "a" -> <<"a">>
      [] n = "escSlash" -> <<"\\", "/">>
      [] n = "escB" -> <<"\\", "b">>

\* the slash value as written, from its first slash to its last
SlashText(items) ==
    (<<"/">> \o Flatten([i \in 1..Len(items) |-> SlashBytes(items[i])])) \o <<"/">>

SlashDocs ==
    {[doc |-> (SlashText(sh.items) \o <<" ", "1", ";">>) \o PieceBytes(sh.tail),
      shape |-> sh] :
        sh \in [items : SeqsUpTo(SlashItems, MaxSlash) \ {<<>>}, tail : {"b1", "list"}]}

InitSlash == InitWith(SlashDocs, {"Decoder", "Parser"})
SpecSlash == InitSlash /\ [][Next]_vars

\* C28: a backslash in a slash value and the byte after it are both copied
\* into the token and the byte after it does not end the token: the key of
\* /body/ 1; is the slash value as written, with every byte of it.
SlashValueEscapes ==
    Done =>
        /\ out.err = NoErr
        /\ out.ucl = NoteRoot(<<shape.tail>>, Single(SlashText(shape.items), Str(<<"1">>)))

\* the part of C28 the code keeps: slash values without a backslash
SlashValueWithoutEscapes ==
    Done /\ Range(shape.items) = {"a"} =>
        /\ out.err = NoErr
        /\ out.ucl = NoteRoot(<<shape.tail>>, Single(SlashText(shape.items), Str(<<"1">>)))

(***************************************************************************)
(* values with '<': a w; followed by a statement, w a word of letters and  *)
(* '<' signs                                                               *)
(***************************************************************************)
MaxAngle == 3

AngleWords == SeqsUpTo({"b", "<"}, MaxAngle) \ {<<>>}

AngleDocs ==
    {[doc |-> ((<<"a", " ">> \o sh.w) \o <<";">>) \o PieceBytes(sh.tail), shape |-> sh] :
        sh \in [w : AngleWords, tail : {"b1", "list"}]}

InitAngle == InitWith(AngleDocs, {"Decoder", "Parser"})
SpecAngle == InitAngle /\ [][Next]_vars

\* w has << in it, with a letter after it or not
HasDoubleAngle(w) == \E i \in 1..(Len(w) - 1) : w[i] = "<" /\ w[i + 1] = "<"

\* w has the opener of a heredoc in it: << and the first letter of a name
HasOpener(w) == \E i \in 1..(Len(w) - 2) : w[i] = "<" /\ w[i + 1] = "<" /\ w[i + 2] = "b"

InHeredoc == s.state \in {MLSTRING_PREP, MLSTRING_HEADER_OK, MLSTRING}

\* C29: the scanner is in a heredoc state only after << and the first
\* letter of a name; a word with single '<' signs (as in a <bb;) is a bare
\* word, the value of its key, and the next statement is decoded after it.
HeredocOpener ==
    /\ InHeredoc => HasOpener(shape.w)
    /\ Done /\ ~HasDoubleAngle(shape.w) =>
          /\ out.err = NoErr
          /\ out.ucl = NoteRoot(<<shape.tail>>, Single(<<"a">>, Str(shape.w)))

\* words without '<' are bare words
WordsWithoutAngle ==
    Done /\ "<" \notin Range(shape.w) =>
          /\ out.err = NoErr
          /\ out.ucl = NoteRoot(<<shape.tail>>, Single(<<"a">>, Str(shape.w)))

(***************************************************************************)
(* documents with a key that is the reserved key's text:                   *)
(* --ucl-keyorder-- x; among other statements                              *)
(***************************************************************************)
MaxReserved == 3

ReservedNames == {"a1", "b1", "list", "ko"}
ReservedBytes(n) ==
    IF n = "ko" THEN (KeyOrder \o <<" ", "x", ";">>) ELSE PieceBytes(n)

ReservedDocs ==
    {[doc |-> Flatten([i \in 1..Len(pcs) |-> ReservedBytes(pcs[i])]), shape |-> pcs] :
        pcs \in SeqsUpTo(ReservedNames, MaxReserved)}

InitReserved == InitWith(ReservedDocs, {"Decoder", "Parser"})
SpecReserved == InitReserved /\ [][Next]_vars

\* C30: a key whose text is the reserved key's does not take the place of
\* the key order of its map: after it the value under the reserved key is
\* still a list of key names, and the keys after it decode without error.
ReservedKeyCollision ==
    /\ KeyOrder \in DOMAIN p.ucl => IsKeys(p.ucl[KeyOrder])
    /\ Done => out.err = NoErr /\ (KeyOrder \in DOMAIN out.ucl => IsKeys(out.ucl[KeyOrder]))

\* the part of C30 the code keeps: documents without such a key
ReservedKeyAbsent ==
    "ko" \notin Range(shape) =>
        /\ KeyOrder \in DOMAIN p.ucl => IsKeys(p.ucl[KeyOrder])
        /\ Done => out.err = NoErr /\ out.ucl = NoteRoot(shape, EmptyMap)

(***************************************************************************)
(* the same documents read in one piece and in pieces                      *)
(***************************************************************************)
\* what Decode returns for the quoted-string document of shape sh when the
\* reader delivers it in one read
OneReadResult(sh) ==
    IF Breaks(sh.items) = 0
    THEN [err |-> NoErr,
          ucl |-> NoteRoot(<<sh.tail>>,
                           Single(<<"a">>, Str(Flatten([i \in 1..Len(sh.items) |->
                                                            QuotedText(sh.items[i])]))))]
    ELSE [err |-> Err("unable to unquote", 1 + Breaks(sh.items)), ucl |-> EmptyMap]

\* OneReadResult is what the program returns from one read
OneReadResultIsDecoded ==
    Done /\ rd.chunk = BufSize => out.err = OneReadResult(shape).err
                                  /\ out.ucl = OneReadResult(shape).ucl

\* C31: what Decode returns does not depend on how the reader splits the
\* document into reads: read in pieces of any size, a document decodes to
\* what it decodes to when read in one piece, also when a backslash and the
\* byte after it come in two reads.
ReadChunkIndependence ==
    Done => out.err = OneReadResult(shape).err /\ out.ucl = OneReadResult(shape).ucl

(***************************************************************************)
(* documents with blocks and lists at the top level, without a key:        *)
(* {a 1;} and [1,2] among other statements                                 *)
(***************************************************************************)
MaxTop == 3

TopNames == {"a1", "b1", "list", "block", "array"}
TopBytes(n) ==
    CASE n = "block" -> <<"{", "a", " ", "1", ";", "}">>
      [] n = "array" -> <<"[", "1", ",", "2", "]">>
      [] OTHER -> PieceBytes(n)

TopDocs ==
    {[doc |-> Flatten([i \in 1..Len(pcs) |-> TopBytes(pcs[i])]), shape |-> pcs] :
        pcs \in SeqsUpTo(TopNames, MaxTop)}

InitTop == InitWith(TopDocs, {"Decoder", "Parser"})
SpecTop == InitTop /\ [][Next]_vars

\* the reader has handed out every byte of the document and the scanner has
\* gone through every byte it was handed
AllRead == rd.pos = Len(doc) /\ s.bufIndex >= s.bufMax

\* C32: Decode returns without error only when the scanner has gone through
\* every byte of the document: no statement after a block or a list at the
\* top level is left unread.
SuccessMeansAllRead ==
    Done /\ out.err = NoErr => AllRead

\* the part of C32 the code keeps: documents of statements with keys
SuccessMeansAllReadWithKeys ==
    Done /\ out.err = NoErr /\ Range(shape) \cap {"block", "array"} = {}
        => AllRead

(***************************************************************************)
(* blocks whose last statement has no terminator in front of the '}':      *)
(* x { body } followed by nothing, a statement or a list                   *)
(***************************************************************************)
ScopeBodies == {"key", "chain", "pair", "stmt", "novalue", "inner"}
ScopeBytes(n) ==
    CASE n = "key" -> <<" ", "a", " ">>
      [] n = "chain" -> <<" ", "\"", "a", "\"", " ", "\"", "b", "\"", " ", "\"", "c", "\"", " ">>
      [] n = "pair" -> <<"a", " ", "1">>
      [] n = "stmt" -> <<"a", " ", "1", ";">>
      [] n = "novalue" -> <<"a", ";">>
      [] n = "inner" -> <<"y", " ", "{", " ", "a", " ", "}">>

ScopeDocs ==
    {[doc |-> ((<<"x", " ", "{">> \o ScopeBytes(sh.body)) \o <<"}">>)
              \o (IF sh.tail = "none" THEN <<>> ELSE PieceBytes(sh.tail)),
      shape |-> sh] :
        sh \in [body : ScopeBodies, tail : {"none", "b1", "list"}]}

InitScope == InitWith(ScopeDocs, {"Decoder", "Parser"})
SpecScope == InitScope /\ [][Next]_vars

\* the frames of the nested maps and lists the decoder is building
OpenScopes ==
    {i \in DOMAIN stack : i > 1 /\ stack[i].fn \in {"parse", "parseList"}}

\* C33: the end of input that Decode turns into success is seen by the
\* top-level map-body: when it is returned, no nested map and no list is
\* still being built, and the block x is in the root.
NoAbandonedScope ==
    /\ ret.err = EOF => OpenScopes = {}
    /\ Done /\ out.err = NoErr => <<"x">> \in DOMAIN out.ucl

\* the part of C33 the code keeps: blocks whose statements are terminated
NoAbandonedScopeTerminated ==
    shape.body \in {"stmt", "novalue"} =>
        /\ ret.err = EOF => OpenScopes = {}
        /\ Done /\ out.err = NoErr => <<"x">> \in DOMAIN out.ucl

(***************************************************************************)
(* keys without a value: a; and a at the end of a line, among statements   *)
(* with values, in the root and in a block                                 *)
(***************************************************************************)
MaxBare == 3

BareNames == {"a", "aline", "b", "a1", "b1", "list", "ma"}
BareBytes(n) ==
    CASE n = "a" -> <<"a", ";">>
      [] n = "aline" -> <<"a", "\n">>
      [] n = "b" -> <<"b", ";">>
      [] n = "ma" -> <<"m", " ", "{", "a", ";", "b", " ", "1", ";", "}">>
      [] OTHER -> PieceBytes(n)

BareDocs ==
    {[doc |-> Flatten([i \in 1..Len(pcs) |-> BareBytes(pcs[i])]), shape |-> pcs] :
        pcs \in SeqsUpTo(BareNames, MaxBare)}

InitBare == InitWith(BareDocs, {"Decoder", "Parser"})
SpecBare == InitBare /\ [][Next]_vars

\* the root of the statements sh, a key without a value holding null, by the
\* rules for repeated keys and for the key order
RECURSIVE BareRoot(_, _)
BareRoot(sh, m) ==
    IF sh = <<>> THEN m
    ELSE BareRoot(Tail(sh),
                  CASE Head(sh) \in {"a", "aline"} -> RefInsert(m, <<"a">>, NilV)
                    [] Head(sh) = "b" -> RefInsert(m, <<"b">>, NilV)
                    [] Head(sh) = "ma" ->
                         RefInsert(m, <<"m">>,
                                   Map(RefInsert(Single(<<"a">>, NilV), <<"b">>, Str(<<"1">>))))
                    [] OTHER -> NoteRoot(<<Head(sh)>>, m))

\* C34: a key followed at once by ';' or by the end of the line is in its
\* map with the null value, no error is returned for it, the statements
\* after it are decoded, and it is a key like any other for the rules of
\* repeated keys and of the key order.
KeyWithoutValue ==
    Done => out.err = NoErr /\ out.ucl = BareRoot(shape, EmptyMap)

KeyWithoutValueWitness ==
    /\ Done
    /\ Len(shape) > 2
    /\ shape[1] = "a1"
    /\ shape[2] \in {"a", "aline"}
    /\ shape[Len(shape)] = "b1"
    /\ out.ucl[<<"a">>] = List(<<Str(<<"1">>), NilV>>)
    /\ out.ucl[KeyOrder] = Keys(<<<<"a">>, <<"b">>>>)

(***************************************************************************)
(* a key that holds a list and is given again: a [1,2]; and a 1; a 3;      *)
(* in some order, with another key between them or not                     *)
(***************************************************************************)
MaxRepeat == 3

RepeatNames == {"a1", "a3", "alist", "b1"}
RepeatBytes(n) ==
    CASE n = "a3" -> <<"a", " ", "3", ";">>
      [] n = "alist" -> <<"a", " ", "[", "1", ",", "2", "]", ";">>
      [] OTHER -> PieceBytes(n)

\* the value of the statement
RepeatValue(n) ==
    CASE n = "alist" -> List(<<Str(<<"1">>), Str(<<"2">>)>>)
      [] n = "a3" -> Str(<<"3">>)
      [] OTHER -> Str(PieceVal(n))

RepeatDocs ==
    {[doc |-> Flatten([i \in 1..Len(pcs) |-> RepeatBytes(pcs[i])]), shape |-> pcs] :
        pcs \in SeqsUpTo(RepeatNames, MaxRepeat)}

InitRepeat == InitWith(RepeatDocs, {"Decoder", "Parser"})
SpecRepeat == InitRepeat /\ [][Next]_vars

\* the values given to key a, in the order of the statements
RECURSIVE ValuesOfA(_)
ValuesOfA(sh) ==
    IF sh = <<>> THEN <<>>
    ELSE (IF Head(sh) = "b1" THEN <<>>
          ELSE <<RepeatValue(Head(sh))>>)
         \o ValuesOfA(Tail(sh))

\* the list under a after the values vs were given to it one after the
\* other, the first of them being a list or the first two making one
RECURSIVE Appended(_, _)
Appended(l, vs) == IF vs = <<>> THEN l ELSE Appended(Append(l, Head(vs)), Tail(vs))

ListUnderA(vs) ==
    IF IsList(vs[1]) THEN List(Appended(vs[1].v, Tail(vs)))
    ELSE List(Appended(<<vs[1]>>, Tail(vs)))

\* C35: a key that holds a list - from the promotion of a repeated key or
\* from an array written in the document - and is given again gets the new
\* value as one more element of that list (a [1,2]; a 3; gives 1, 2, 3); the
\* list is not wrapped into a list of two.
RepeatedKeyOverList ==
    Done /\ Len(ValuesOfA(shape)) > 1 =>
        /\ out.err = NoErr
        /\ out.ucl[<<"a">>] = ListUnderA(ValuesOfA(shape))

RepeatedKeyOverListWitness ==
    /\ Done
    /\ Len(shape) > 1
    /\ shape[1] = "alist"
    /\ shape[Len(shape)] = "a3"
    /\ out.ucl[<<"a">>].v[1] = Str(<<"1">>)
    /\ out.ucl[<<"a">>].v[Len(out.ucl[<<"a">>].v)] = Str(<<"3">>)

(***************************************************************************)
(* heredocs with and without a body: a <<E, 0..MaxEmpty body lines that    *)
(* are x or empty, the terminator line, then nothing, a statement or list  *)
(***************************************************************************)
MaxEmpty == 2

EmptyHereDocs ==
    {[doc |-> (<<"a", " ", "<", "<", "E", "\n">> \o WithNewlines(sh.lines) \o <<"E", "\n">>)
              \o (IF sh.tail = "none" THEN <<>> ELSE PieceBytes(sh.tail)),
      shape |-> sh] :
        sh \in [lines : SeqsUpTo({<<"x">>, <<>>}, MaxEmpty), tail : HereTails]}

InitEmptyHere == InitWith(EmptyHereDocs, {"Decoder", "Parser"})
SpecEmptyHere == InitEmptyHere /\ [][Next]_vars

\* C36: Decode returns; no step of the scanner or of the decoder panics
\* (no index or slice outside a buffer, no panic call), also for a heredoc
\* whose terminator line comes right after the header line.
NoCrash == out.state # "panic"

\* the part of C36 the code keeps: heredocs with a body line, empty or not
NoCrashWithBody ==
    shape.lines # <<>> => out.state # "panic"

(***************************************************************************)
(* documents that end inside a string: after a statement or not, in a      *)
(* block or not, a "xx or a 'xx without the closing quote, or a <<E and    *)
(* body lines without the terminator line                                  *)
(***************************************************************************)
MaxCut == 2

CutKinds == {"quote", "vquote", "heredoc"}
CutBytes(kind, n) ==
    CASE kind = "quote" -> <<"a", " ", "\"">> \o [i \in 1..n |-> "x"]
      [] kind = "vquote" -> <<"a", " ", "'">> \o [i \in 1..n |-> "x"]
      [] kind = "heredoc" ->
            <<"a", " ", "<", "<", "E", "\n">> \o WithNewlines([i \in 1..n |-> <<"x">>])

CutDocs ==
    {[doc |-> ((IF sh.pre = "none" THEN <<>> ELSE PieceBytes(sh.pre))
               \o (IF sh.inBlock THEN PieceBytes("open") ELSE <<>>))
              \o CutBytes(sh.kind, sh.n),
      shape |-> sh] :
        sh \in [pre : {"none", "b1", "list"}, inBlock : BOOLEAN, kind : CutKinds,
                n : 0..MaxCut]}

InitCut == InitWith(CutDocs, {"Decoder", "Parser"})
SpecCut == InitCut /\ [][Next]_vars

\* C37: a document that ends inside a quoted string or inside the body of
\* a heredoc is not decoded with success: Decode returns an error.
UnterminatedStringFails ==
    Done => out.err # NoErr

\* the part of C37 the code keeps: the string is inside an open block
UnterminatedStringInBlockFails ==
    Done /\ shape.inBlock => out.err = ErrUnexpectedEOF

(***************************************************************************)
(* termination: Decode is one sequential call, so a step that can be taken *)
(* is taken (weak fairness of Next)                                        *)
(***************************************************************************)
SpecEmptyHereLive == SpecEmptyHere /\ WF_vars(Next)
SpecBytesLive == SpecBytes /\ WF_vars(Next)

\* C38: for every document, which the reader hands out up to its end,
\* Decode returns in the end; no loop of the scanner or of the decoder goes
\* on for ever.
DecodeReturns == <>Done

\* the part of C38 the code keeps: the call comes to an end, by a return or
\* by a panic; no loop goes round without end
DecodeEnds == <>(out.state \in {"returned", "panic"})

(***************************************************************************)
(* documents of brackets: every sequence of at most MaxScopeLen bytes out  *)
(* of a word byte, a space, a quote and the four brackets                  *)
(***************************************************************************)
MaxScopeLen == 4

BracketAlphabet == {"a", " ", "\"", "{", "}", "[", "]"}
BracketDocs == {[doc |-> d, shape |-> <<>>] : d \in SeqsUpTo(BracketAlphabet, MaxScopeLen)}

InitBracket == InitWith(BracketDocs, {"Decoder", "Parser"})
SpecBracket == InitBracket /\ [][Next]_vars

\* the scanner is about to take a byte out of its buffer, and the byte
ScanningByte == Running("nextTags") /\ s.bufIndex < s.bufMax
ScannedByte == s.buf[s.bufIndex + 1]

\* the batch of tokens after a step of the byte loop: kept in the frame
\* when the loop goes on, returned when it returns tags, lost otherwise
BatchAfter ==
    IF out'.state = "panic" THEN <<>>
    ELSE IF Len(stack') = Len(stack) THEN stack'[Len(stack')].tags
    ELSE IF ret'.err = NoErr THEN ret'.val
    ELSE <<>>

IsBracketToken(t) == t.state \in {BRACEOPEN, BRACKETOPEN, BRACECLOSE, BRACKETCLOSE}

\* the open and close tokens the step emitted
BracketsEmitted ==
    SelectSeq(SubSeq(BatchAfter, Len(Top.tags) + 1, Len(BatchAfter)), IsBracketToken)

OpenState(c) == IF c = "{" THEN BRACEOPEN ELSE BRACKETOPEN
CloseState(c) == IF c = "{" THEN BRACECLOSE ELSE BRACKETCLOSE

OnlyBrackets == \A i \in DOMAIN s.depth : s.depth[i] \in {"{", "["}

\* one step of the byte loop: the stack and the emitted brackets move together
ScopeStep ==
    ScanningByte =>
        /\ s'.depth = s.depth => BracketsEmitted = <<>>
        /\ s'.depth # s.depth =>
              \/ /\ s'.depth = Append(s.depth, ScannedByte)
                 /\ Len(BracketsEmitted) = 1
                 /\ BracketsEmitted[1].state = OpenState(ScannedByte)
              \/ /\ s.depth # <<>>
                 /\ s'.depth = SubSeq(s.depth, 1, Len(s.depth) - 1)
                 /\ Len(BracketsEmitted) = 1
                 /\ BracketsEmitted[1].state = CloseState(Last(s.depth))
        /\ ScannedByte \in {"}", "]"} /\ Len(stack') < Len(stack) /\ ret'.err # NoErr =>
              s'.depth = s.depth

\* C39: at every point of scanning the scope stack holds only '{' and '['
\* and is the sequence of the open tokens emitted so far that no emitted
\* close token has matched yet.  The stack and the emission both start
\* empty, so this is: every step of the byte loop that pushes a byte
\* emits exactly one open token of that kind, every step that pops emits
\* exactly one close token of the kind of the popped byte, every other
\* step emits no open or close token, and a close that fails leaves the
\* stack as it was.
ScopeStack == []OnlyBrackets /\ [][ScopeStep]_vars

\* a '[' inside a '{' has been closed: the stack is back to the '{' and the
\* batch the scanner returned ends with the BRACKETCLOSE token
ScopeStackWitness ==
    /\ Running("nextTag")
    /\ Top.pc = "scanned"
    /\ ret.err = NoErr
    /\ s.depth = <<"{">>
    /\ Len(ret.val) > 0
    /\ ret.val[Len(ret.val)].state = BRACKETCLOSE

====
